---- MODULE Spec2Model ----
(***************************************************************************)
(* A model of the agentpay payment router (package router): Router.Fetch   *)
(* with its budget ledger, trust gate, settlement and single retry, run by *)
(* several concurrent callers on one Router.                               *)
(*                                                                         *)
(* Money is float64 in the code.  It is modelled as a binary floating      *)
(* point format of the same kind with a narrower significand: a value is   *)
(* an integer number of quanta with at most MantBits significant bits, and *)
(* every arithmetic result is rounded to the nearest such value, ties to   *)
(* even, as IEEE-754 does.  NaN and the infinities are not modelled.       *)
(***************************************************************************)
EXTENDS Integers, Sequences, FiniteSets, TLC

\* ------------------------------------------------------------------ bounds
MantBits == 4       \* significand width of the modelled float format
DecScale == 10      \* base units per quantum (stands for the 10^6 of USDC)
MaxCallers == 2     \* callers that may run Fetch concurrently
MaxFetches == 3     \* Fetch calls per run of the concurrent specification
SeqFetches == 6     \* Fetch calls per run of the sequential specification
OneFetches == 2     \* Fetch calls per run of the single-caller specification
LockFetches == 2     \* calls of Fetch followed lock by lock
MaxObservers == 1    \* threads calling Receipts and SessionSpend
MaxObserves == 2     \* calls of Receipts or SessionSpend by one thread
CapsFetches == 2     \* calls of Fetch under both caps
CancelFetches == 1   \* calls of Fetch whose context may be cancelled
WideFetches == 1    \* Fetch calls per run of the request-level specification
MaxAccepts == 2     \* accept entries of a requirement handed to a provider
MaxMembers == 2     \* members of a JSON array or object of scalars
MaxDigits == 3      \* digits of the amount of a BOLT11 invoice

\* ------------------------------------------------------- program constants
StatusPaymentRequired == 402
StatusErrorFloor == 400
StatusOK == 200

\* ------------------------------------------------------ float64 arithmetic
RECURSIVE BitLen(_)
BitLen(n) == IF n = 0 THEN 0 ELSE 1 + BitLen(n \div 2)

\* The integer nearest to num/den (num >= 0, den > 0), ties to the even one.
RoundNearestEven(num, den) ==
  LET lo == num \div den
      rem == num - lo * den
  IN  IF 2 * rem < den THEN lo
      ELSE IF 2 * rem > den THEN lo + 1
      ELSE IF lo % 2 = 0 THEN lo ELSE lo + 1

FlMag(num, den) ==
  LET ip == num \div den
      e == IF BitLen(ip) > MantBits THEN BitLen(ip) - MantBits ELSE 0
      q == 2 ^ e
  IN  q * RoundNearestEven(num, den * q)

\* The float nearest to the rational num/den.
FlRat(num, den) == IF num < 0 THEN 0 - FlMag(0 - num, den) ELSE FlMag(num, den)

\* a + b in float64.
FAdd(a, b) == FlRat(a + b, 1)

\* The float64 of a decimal amount of base units: amount / 1e6 in
\* EstimateCost, and a decimal literal of the configuration.
FromDecimal(amount) == FlRat(amount, DecScale)

\* --------------------------------------------------------------- the inputs
Callers == 1 .. MaxCallers

\* Base-unit amounts a 402 challenge may ask for.
Amounts == {10, 75}
Costs == {FromDecimal(a) : a \in Amounts}

NoErr == ""
Nil == <<>>

\* The caller's body reader: absent, or a reader that yields data or fails.
\* An io.Reader: absent (nil), or a position in some bytes; reading it may fail.
NilReader == [nil |-> TRUE, bytes |-> <<>>, pos |-> 0, fail |-> FALSE]
NewReader(bytes) == [nil |-> FALSE, bytes |-> bytes, pos |-> 0, fail |-> FALSE]
Readers ==
  {NilReader} \cup
  {[nil |-> FALSE, bytes |-> d, pos |-> 0, fail |-> f] :
     d \in {<<>>, <<7>>, <<7, 8>>}, f \in BOOLEAN}

\* What is left to read, and the reader once it has been read to its end.
Remaining(rd) == SubSeq(rd.bytes, rd.pos + 1, Len(rd.bytes))
Drained(rd) == [rd EXCEPT !.pos = Len(rd.bytes)]

\* A []byte: nil, or bytes.
NilBytes == [nil |-> TRUE, bytes |-> <<>>]
Bytes(b) == [nil |-> FALSE, bytes |-> b]

\* The body an HTTP request carries on the wire when built over a reader.
WireBody(rd) == IF rd.nil THEN NilBytes ELSE Bytes(Remaining(rd))

\* JSON documents a server may put in an x402 header, and their base64 form.
DocPayTo ==
  "{accepts:[{network:eip155:84532,maxAmountRequired:10000,payTo:0xabc123}]}"
DocNoPayTo == "{accepts:[{network:eip155:84532,maxAmountRequired:10000}]}"
DocNoAccepts == "{}"
DocArray ==
  "[{network:eip155:84532,maxAmountRequired:10000,payTo:0xabc123}]"
DocNegative ==
  "{accepts:[{network:eip155:84532,maxAmountRequired:5000000},{network:eip155:84532,maxAmountRequired:-1000000,payTo:0xabc123}]}"
DocNull == "null"
DocNumber == "7"
DocNotJSON == "not json"
X402Docs ==
  {DocPayTo, DocNoPayTo, DocNoAccepts, DocNegative, DocArray, DocNull,
   DocNumber, DocNotJSON}
B64(text) == "b64<" \o text \o ">"

\* Header values and bodies of the 402 responses a Router is run against.
PayHdrs == {"", B64(DocPayTo), B64(DocNoPayTo), B64(DocNoAccepts), DocNotJSON}
XPayHdrs == {"", B64(DocPayTo)}
ChallengeInvoiceHash == "L402 invoice=lnbc100u1pjtest, payment_hash=hash123"
ChallengeInvoice == "L402 macaroon=abc123, invoice=lnbc100u1pjtest"
ChallengeNoInvoice == "L402 macaroon=abc123"
AuthHdrs ==
  {"", ChallengeInvoiceHash, ChallengeInvoice, ChallengeNoInvoice,
   "Basic realm=x"}
BodyInvoiceHash == "{invoice:lnbc50u1pj,payment_hash:abc123}"
Bodies402 == {"", "{}", BodyInvoiceHash, "not json"}

\* Every header value and body the Detector is probed with.
AllPayHdrs == {""} \cup X402Docs \cup {B64(d) : d \in X402Docs}
AllAuthHdrs ==
  AuthHdrs \cup
  {"LSAT macaroon=abc123, invoice=lnbc100u1pjtest",
   "L402 invoice=, payment_hash=hash123",
   "l402 invoice=lnbc100u1pjtest",
   "L402"}
AllBodies ==
  Bodies402 \cup
  {"{invoice:lnbc50u1pj}", "{pr:lnbc50u1pj}",
   "{invoice:,pr:lnbc50u1pj,payment_hash:abc123}", "{payment_hash:abc123}",
   "null"}

Response(s, p, x, a, b) ==
  [status |-> s, payHdr |-> p, xPayHdr |-> x, authHdr |-> a, body |-> b]

NoResponse == Response(0, "", "", "", "")

InitialResponses ==
  {Response(s, p, "", "", "ok") :
     s \in {200, 304, 500}, p \in {"", B64(DocPayTo)}} \cup
  {Response(StatusPaymentRequired, p, x, a, b) :
     p \in PayHdrs, x \in XPayHdrs, a \in AuthHdrs, b \in Bodies402}

\* Every 402 response the Detector can be handed.
ProbeResponses ==
  {Response(StatusPaymentRequired, p, x, a, b) :
     p \in AllPayHdrs, x \in XPayHdrs, a \in AllAuthHdrs, b \in AllBodies}

\* The initial responses of a run followed in full: each header value and
\* each body also on its own.
WideResponses ==
  InitialResponses \cup
  {Response(StatusPaymentRequired, p, "", "", "") : p \in AllPayHdrs} \cup
  {Response(StatusPaymentRequired, "", "", a, "") : a \in AllAuthHdrs} \cup
  {Response(StatusPaymentRequired, "", "", "", b) : b \in AllBodies}

RetryResponses ==
  {Response(s, "", "", "", "paid content") : s \in {200, 304}} \cup
  {Response(s, "", "", "", "denied") : s \in {StatusPaymentRequired, 500}}

\* What the network does to one HTTP exchange.
Transports == {"ok", "send failed", "read failed"}

\* Trust service answers: a score, or no usable answer.
Scores == {0, 1}
TrustAnswers == {[ok |-> TRUE, score |-> s] : s \in Scores} \cup
                {[ok |-> FALSE, score |-> 0]}

\* What the trust endpoint does to GetScore's request.
TrustReplies ==
  {[transport |-> "ok", status |-> StatusOK, body |-> b] :
     b \in {"score 0", "score 1", "{}", "not json"}} \cup
  {[transport |-> "ok", status |-> 500, body |-> "score 0"],
   [transport |-> "send failed", status |-> StatusOK, body |-> "score 0"]}

\* WoTChecker.GetScore: a transport error, a status other than 200 and a
\* body that is not JSON are errors; an object without a score decodes to 0.
GetScore(reply) ==
  IF reply.transport # "ok" THEN [ok |-> FALSE, score |-> 0]
  ELSE IF reply.status # StatusOK THEN [ok |-> FALSE, score |-> 0]
  ELSE IF reply.body = "not json" THEN [ok |-> FALSE, score |-> 0]
  ELSE [ok |-> TRUE, score |-> IF reply.body = "score 1" THEN 1 ELSE 0]

\* EstimateCost outcomes of a registered provider.
Describe(usdCost) == "$" \o ToString(usdCost)
Estimates ==
  {[err |-> NoErr, usdCost |-> c, description |-> Describe(c)] : c \in Costs}
  \cup {[err |-> "estimate cost", usdCost |-> 0, description |-> ""]}

\* The method, URL and header arguments of Fetch.
Methods == {"GET", "POST"}
GoodURL == "https://api.example.com/data"
BadURL == "://"
HeaderMaps ==
  {{}, {<<"Accept", "application/json">>},
   {<<"Authorization", "Bearer token">>},
   {<<"authorization", "Bearer token">>, <<"Payment", "mine">>}}

\* ---------------------------------------------------------------- the state
VARIABLES
  config,        \* Router.config: MaxPerRequestUSD, MaxSessionUSD, DryRun
  providers,     \* Router.providers: the protocols with a registered provider
  wot,           \* Router.wot: <<>> or <<[MinScore, ThresholdUSD]>>
  sessionSpend,  \* Router.sessionSpend
  receipts,      \* Router.receipts
  settled,       \* with one caller: the costs of the Pay calls that succeeded
  mu,            \* Router.mu: <<>> when free, else the thread that holds it
  observer,      \* per observing thread: its call of Receipts or SessionSpend
  call,          \* per caller: the Fetch it is running
  nCallers,      \* how many callers use this Router
  fetchesLeft,   \* Fetch calls still to be started
  rich,          \* whether the run draws from the full input sets
  wide,          \* whether the run follows each request and response in full
  probe          \* a direct call of the Detector or of a provider

vars == <<config, providers, wot, sessionSpend, receipts, settled, mu,
          observer, call, nCallers, fetchesLeft, rich, wide, probe>>

\* The inputs of a run.  A run with several callers or many calls draws from
\* the part of each input set that reaches the ledger; a run of one caller
\* and few calls draws from all of it.
ReadersIn == IF rich THEN Readers ELSE {NilReader}
UrlsIn == IF rich THEN BOOLEAN ELSE {TRUE}
TransportsIn == IF rich THEN Transports ELSE {"ok", "send failed"}
InitialResponsesIn ==
  IF wide THEN WideResponses
  ELSE IF rich THEN InitialResponses
  ELSE {Response(200, "", "", "", "ok"),
        Response(StatusPaymentRequired, B64(DocPayTo), "", "", "{}")}
TrustRepliesIn ==
  IF rich THEN TrustReplies
  ELSE {[transport |-> "ok", status |-> StatusOK, body |-> "score 0"],
        [transport |-> "send failed", status |-> StatusOK, body |-> "score 0"]}
MethodsIn == IF wide THEN Methods ELSE {"GET"}
HeadersIn == IF wide THEN HeaderMaps ELSE {{}}
RetryResponsesIn ==
  IF rich THEN RetryResponses
  ELSE {Response(200, "", "", "", "paid content"),
        Response(StatusPaymentRequired, "", "", "", "denied")}

\* The threads that call Receipts and SessionSpend, and one at rest.
Observers == 1 .. MaxObservers
IdleObserver(left) == [pc |-> "idle", op |-> "", left |-> left, seen |-> <<>>]

\* A PaymentRequirement; X402 tells whether X402Requirement is non-nil.
NoReq ==
  [Protocol |-> "unknown", X402 |-> FALSE, Accepts |-> <<>>,
   L402Invoice |-> "", L402Hash |-> ""]
\* A returned error that is not a *PaymentError carries no protocol or amount.
NoPaymentError == [typed |-> FALSE, Protocol |-> "", Amount |-> ""]
NoResult ==
  [body |-> "", receipt |-> Nil, err |-> NoErr, perr |-> NoPaymentError]

\* A request header as a (name, value) pair; a header map is a set of them.
NoHeader == <<"", "">>

\* http.Header.Set stores a value under the canonical form of its name.
CanonicalKey(name) == IF name = "authorization" THEN "Authorization" ELSE name

\* req.Header.Set(k, v): the value replaces what the map holds under k.
HeaderSet(hdrs, h) ==
  {g \in hdrs : g[1] # CanonicalKey(h[1])} \cup {<<CanonicalKey(h[1]), h[2]>>}

\* for k, v := range headers { req.Header.Set(k, v) } over a caller's map,
\* whose names are distinct.
CallerHeaders(headers) == {<<CanonicalKey(h[1]), h[2]>> : h \in headers}

\* One Fetch: its arguments (method, url, headers), its position, its locals
\* (body, bodyBytes, respBody, payReq, usdCost, description, proof), the
\* requests it built, the initial response (initial), whether no other
\* caller's Fetch was running when it began (alone), what the trust
\* endpoint answered (trustReply),
\* what it put on the wire and got back (sent, statuses), how often
\* it called each collaborator, and what it returned.
IdleCall ==
  [pc |-> "idle", alone |-> TRUE, cancelled |-> FALSE, body |-> NilReader, bodyBytes |-> NilBytes, bodyReads |-> 0,
   method |-> "", url |-> "", headers |-> {}, proof |-> NoHeader,
   sent |-> <<>>, requests |-> <<>>, statuses |-> <<>>,
   initial |-> NoResponse, respBody |-> "", payReq |-> NoReq,
   usdCost |-> 0, description |-> "",
   trustReply |-> Nil,
   nEstimate |-> 0, nBudget |-> 0, nTrust |-> 0, nPay |-> 0, nRecord |-> 0,
   result |-> NoResult]

\* ------------------------------------------------------- protocol detection
X402Req(accepts) ==
  [Protocol |-> "x402", X402 |-> TRUE, Accepts |-> accepts,
   L402Invoice |-> "", L402Hash |-> ""]

L402Req(invoice, hash) ==
  [Protocol |-> "L402", X402 |-> FALSE, Accepts |-> <<>>,
   L402Invoice |-> invoice, L402Hash |-> hash]

Detected(req) == [err |-> NoErr, req |-> req]
DetectError(e) == [err |-> e, req |-> NoReq]

\* An X402Accept as far as the Router and the providers read it.
X402Accept(scheme, network, amount, payTo, asset) ==
  [Scheme |-> scheme, Network |-> network, MaxAmountRequired |-> amount,
   PayTo |-> payTo, Asset |-> asset]

\* An entry of the "exact" scheme over the USDC contract.
Accept(network, amount, payTo) ==
  X402Accept("exact", network, amount, payTo, "0x036CbD")

\* base64.StdEncoding.DecodeString: the decoded text, or failure.  "null" is
\* four characters of the base64 alphabet and decodes to three bytes.
Base64Decode(header) ==
  IF \E d \in X402Docs : header = B64(d)
  THEN [ok |-> TRUE, text |-> CHOOSE d \in X402Docs : header = B64(d)]
  ELSE IF header = DocNull THEN [ok |-> TRUE, text |-> "<9e e9 65>"]
  ELSE [ok |-> FALSE, text |-> ""]

\* json.Unmarshal into an X402Requirement: an object fills Accepts from its
\* "accepts" member, null leaves the struct as it is, anything else fails.
UnmarshalRequirement(text) ==
  CASE text = DocPayTo ->
         [ok |-> TRUE, Accepts |-> <<Accept("eip155:84532", "10000", "0xabc123")>>]
    [] text = DocNoPayTo ->
         [ok |-> TRUE, Accepts |-> <<Accept("eip155:84532", "10000", "")>>]
    [] text = DocNegative ->
         [ok |-> TRUE,
          Accepts |-> <<Accept("eip155:84532", "5000000", ""),
                        Accept("eip155:84532", "-1000000", "0xabc123")>>]
    [] text \in {DocNoAccepts, DocNull} -> [ok |-> TRUE, Accepts |-> <<>>]
    [] OTHER -> [ok |-> FALSE, Accepts |-> <<>>]

\* json.Unmarshal into a []X402Accept: an array or null.
UnmarshalAccepts(text) ==
  CASE text = DocArray ->
         [ok |-> TRUE, Accepts |-> <<Accept("eip155:84532", "10000", "0xabc123")>>]
    [] text = DocNull -> [ok |-> TRUE, Accepts |-> <<>>]
    [] OTHER -> [ok |-> FALSE, Accepts |-> <<>>]

ErrParseX402 == "parse x402 header"

parseX402Header(header) ==
  LET b == Base64Decode(header)
      decoded == IF b.ok THEN b.text ELSE header
      asReq == UnmarshalRequirement(decoded)
      asList == UnmarshalAccepts(decoded)
  IN  IF asReq.ok THEN Detected(X402Req(asReq.Accepts))
      ELSE IF asList.ok THEN Detected(X402Req(asList.Accepts))
      ELSE DetectError(ErrParseX402)

\* strings.HasPrefix(authHeader, "LSAT ") || strings.HasPrefix(authHeader, "L402 ")
HasL402Prefix(authHeader) ==
  authHeader \in {ChallengeInvoiceHash, ChallengeInvoice, ChallengeNoInvoice,
                  "LSAT macaroon=abc123, invoice=lnbc100u1pjtest",
                  "L402 invoice=, payment_hash=hash123"}

\* parseHeaderParams over what follows the scheme: the key=value pairs.
parseHeaderParams(header) ==
  CASE header = ChallengeInvoiceHash ->
         [invoice |-> "lnbc100u1pjtest", payment_hash |-> "hash123"]
    [] header \in {ChallengeInvoice,
                   "LSAT macaroon=abc123, invoice=lnbc100u1pjtest",
                   "l402 invoice=lnbc100u1pjtest"} ->
         [invoice |-> "lnbc100u1pjtest", payment_hash |-> ""]
    [] header = "L402 invoice=, payment_hash=hash123" ->
         [invoice |-> "", payment_hash |-> "hash123"]
    [] OTHER -> [invoice |-> "", payment_hash |-> ""]

ErrMissingInvoice == "missing invoice in L402 response"
ErrUnknownProtocol == "unknown payment protocol"

\* parseL402Challenge that takes a challenge without an invoice.
parseL402ChallengeAnyInvoice(header) ==
  LET params == parseHeaderParams(header)
  IN  Detected(L402Req(params.invoice, params.payment_hash))

\* DetectProtocol calls it on a header with a space after the scheme only,
\* so strings.SplitN always yields the two parts and ErrMalformedL402 is
\* not returned.
parseL402Challenge(header) ==
  LET params == parseHeaderParams(header)
  IN  IF params.invoice = "" THEN DetectError(ErrMissingInvoice)
      ELSE Detected(L402Req(params.invoice, params.payment_hash))

\* json.Unmarshal of the body into {invoice, payment_hash, pr}.
UnmarshalL402Body(body) ==
  CASE body = BodyInvoiceHash ->
         [ok |-> TRUE, Invoice |-> "lnbc50u1pj", PaymentHash |-> "abc123", PR |-> ""]
    [] body = "{invoice:lnbc50u1pj}" ->
         [ok |-> TRUE, Invoice |-> "lnbc50u1pj", PaymentHash |-> "", PR |-> ""]
    [] body = "{pr:lnbc50u1pj}" ->
         [ok |-> TRUE, Invoice |-> "", PaymentHash |-> "", PR |-> "lnbc50u1pj"]
    [] body = "{invoice:,pr:lnbc50u1pj,payment_hash:abc123}" ->
         [ok |-> TRUE, Invoice |-> "", PaymentHash |-> "abc123", PR |-> "lnbc50u1pj"]
    [] body = "{payment_hash:abc123}" ->
         [ok |-> TRUE, Invoice |-> "", PaymentHash |-> "abc123", PR |-> ""]
    [] body \in {"{}", "null"} ->
         [ok |-> TRUE, Invoice |-> "", PaymentHash |-> "", PR |-> ""]
    [] OTHER -> [ok |-> FALSE, Invoice |-> "", PaymentHash |-> "", PR |-> ""]

\* parseL402Body that reports a body that is not JSON as a parse failure.
parseL402BodyStrict(body) ==
  LET data == UnmarshalL402Body(body)
      invoice == IF data.Invoice = "" THEN data.PR ELSE data.Invoice
  IN  IF ~data.ok THEN DetectError("parse L402 body")
      ELSE IF invoice = "" THEN DetectError("unknown payment protocol")
      ELSE Detected(L402Req(invoice, data.PaymentHash))

parseL402Body(body) ==
  LET data == UnmarshalL402Body(body)
      invoice == IF data.Invoice = "" THEN data.PR ELSE data.Invoice
  IN  IF ~data.ok THEN DetectError(ErrUnknownProtocol)
      ELSE IF invoice = "" THEN DetectError(ErrUnknownProtocol)
      ELSE Detected(L402Req(invoice, data.PaymentHash))

\* DetectProtocol that looks for an L402 challenge before the x402 header.
DetectProtocolL402First(resp) ==
  LET paymentHeader == IF resp.payHdr = "" THEN resp.xPayHdr ELSE resp.payHdr
  IN  IF HasL402Prefix(resp.authHdr) THEN parseL402Challenge(resp.authHdr)
      ELSE IF paymentHeader # "" THEN parseX402Header(paymentHeader)
      ELSE IF resp.body # "" THEN parseL402Body(resp.body)
      ELSE DetectError("unknown payment protocol")

\* DetectProtocol that falls through to the body when a challenge has no
\* invoice.
DetectProtocolBodyRescue(resp) ==
  LET paymentHeader == IF resp.payHdr = "" THEN resp.xPayHdr ELSE resp.payHdr
      challenge == parseL402Challenge(resp.authHdr)
  IN  IF paymentHeader # "" THEN parseX402Header(paymentHeader)
      ELSE IF HasL402Prefix(resp.authHdr) /\ challenge.err = NoErr
      THEN challenge
      ELSE IF resp.body # "" THEN parseL402Body(resp.body)
      ELSE DetectError("unknown payment protocol")

DetectProtocol(resp) ==
  LET paymentHeader == IF resp.payHdr = "" THEN resp.xPayHdr ELSE resp.payHdr
  IN  IF paymentHeader # "" THEN parseX402Header(paymentHeader)
      ELSE IF HasL402Prefix(resp.authHdr) THEN parseL402Challenge(resp.authHdr)
      ELSE IF resp.body # "" THEN parseL402Body(resp.body)
      ELSE DetectError(ErrUnknownProtocol)

extractRecipient(req) ==
  IF req.X402 /\ Len(req.Accepts) > 0
  THEN req.Accepts[1].PayTo
  ELSE req.L402Hash

\* ---------------------------------------------------------- x402 providers
\* A float64: a number of the grid, NaN, +Inf or -Inf.
Num(v) == [kind |-> "num", val |-> v]
NaN == [kind |-> "nan", val |-> 0]
PosInf == [kind |-> "+inf", val |-> 0]
NegInf == [kind |-> "-inf", val |-> 0]
\* math.MaxFloat64, above every number an amount parses to.
MaxFloat64 == [kind |-> "max", val |-> 0]

\* a < b on float64.
FLess(a, b) ==
  CASE a.kind = "nan" \/ b.kind = "nan" -> FALSE
    [] a.kind = "-inf" -> b.kind # "-inf"
    [] b.kind = "-inf" -> FALSE
    [] a.kind = "+inf" -> FALSE
    [] b.kind = "+inf" -> TRUE
    [] a.kind = "max" -> FALSE
    [] b.kind = "max" -> TRUE
    [] OTHER -> a.val < b.val

BaseUnitsPerUSD == 1000000

\* amount / 1e6 on float64.
FDivUSD(a) ==
  IF a.kind = "num" THEN Num(FlRat(a.val, BaseUnitsPerUSD)) ELSE a

\* The maxAmountRequired strings of the accept entries.
IntegerTexts == {"1000000", "5000000", "5200000"}
AmountTexts ==
  IntegerTexts \cup
  {"-1000000", "3000000.0", "2e6", "abc", "", "NaN", "Inf", "-Inf"}

\* strconv.ParseFloat(s, 64): the nearest float64 of a decimal, hexadecimal,
\* infinity or NaN literal, or an error.
ParseFloat(text) ==
  CASE text = "1000000" -> [ok |-> TRUE, f |-> Num(FlRat(1000000, 1))]
    [] text = "5000000" -> [ok |-> TRUE, f |-> Num(FlRat(5000000, 1))]
    [] text = "5200000" -> [ok |-> TRUE, f |-> Num(FlRat(5200000, 1))]
    [] text = "10000" -> [ok |-> TRUE, f |-> Num(FlRat(10000, 1))]
    [] text = "-1000000" -> [ok |-> TRUE, f |-> Num(FlRat(0 - 1000000, 1))]
    [] text = "3000000.0" -> [ok |-> TRUE, f |-> Num(FlRat(30000000, 10))]
    [] text = "2e6" -> [ok |-> TRUE, f |-> Num(FlRat(2 * 10 ^ 6, 1))]
    [] text = "NaN" -> [ok |-> TRUE, f |-> NaN]
    [] text = "Inf" -> [ok |-> TRUE, f |-> PosInf]
    [] text = "-Inf" -> [ok |-> TRUE, f |-> NegInf]
    [] OTHER -> [ok |-> FALSE, f |-> Num(0)]

\* The loop with <= in place of <: among equal amounts the last one wins.
RECURSIVE CheapestLast(_, _, _, _)
CheapestLast(accepts, k, cheapest, cheapestUSD) ==
  IF k > Len(accepts) THEN [cheapest |-> cheapest, cheapestUSD |-> cheapestUSD]
  ELSE
    LET parsed == ParseFloat(accepts[k].MaxAmountRequired)
        usd == FDivUSD(parsed.f)
    IN  IF ~parsed.ok THEN CheapestLast(accepts, k + 1, cheapest, cheapestUSD)
        ELSE IF ~FLess(cheapestUSD, usd)
        THEN CheapestLast(accepts, k + 1, k, usd)
        ELSE CheapestLast(accepts, k + 1, cheapest, cheapestUSD)

\* The loop of EstimateCost over accepts[k ..]: the index of the cheapest
\* entry so far (0: none) and its USD amount.
RECURSIVE Cheapest(_, _, _, _)
Cheapest(accepts, k, cheapest, cheapestUSD) ==
  IF k > Len(accepts) THEN [cheapest |-> cheapest, cheapestUSD |-> cheapestUSD]
  ELSE
    LET parsed == ParseFloat(accepts[k].MaxAmountRequired)
        usd == FDivUSD(parsed.f)
    IN  IF ~parsed.ok THEN Cheapest(accepts, k + 1, cheapest, cheapestUSD)
        ELSE IF FLess(usd, cheapestUSD) THEN Cheapest(accepts, k + 1, k, usd)
        ELSE Cheapest(accepts, k + 1, cheapest, cheapestUSD)

\* fmt.Sprintf("$%.4f", usd)
FormatUSD(usd) ==
  CASE usd.kind = "num" -> "$" \o ToString(usd.val) \o ".0000"
    [] usd.kind = "-inf" -> "$-Inf"
    [] usd.kind = "+inf" -> "$+Inf"
    [] OTHER -> "$NaN"

NoEstimate(e) ==
  [err |-> e, usdCost |-> Num(0), description |-> "", entry |-> 0]

ErrNoOptions == "no x402 payment options"
ErrNoAmounts == "no parseable payment amounts"

\* EstimateCost of the x402 providers; entry is the index of the accept
\* entry the cost was computed on.
EstimateCostOf(req, suffix) ==
  IF ~req.X402 \/ Len(req.Accepts) = 0 THEN NoEstimate(ErrNoOptions)
  ELSE
    LET c == Cheapest(req.Accepts, 1, 0, MaxFloat64)
    IN  IF c.cheapest = 0 THEN NoEstimate(ErrNoAmounts)
        ELSE [err |-> NoErr, usdCost |-> c.cheapestUSD,
              description |->
                FormatUSD(c.cheapestUSD) \o " USDC on "
                  \o req.Accepts[c.cheapest].Network \o suffix,
              entry |-> c.cheapest]

X402EstimateCost(req) == EstimateCostOf(req, "")
CDPEstimateCost(req) == EstimateCostOf(req, " (CDP)")

\* strings.HasPrefix(opt.Network, "eip155:")
HasEIP155Prefix(network) ==
  network \in {"eip155:8453", "eip155:84532", "eip155:base"}

\* Base Sepolia, the chain of a network whose suffix is not a number.
DefaultChainID == 84532

\* strings.SplitN(accept.Network, ":", 2) and strconv.ParseInt of the suffix.
ChainID(network) ==
  CASE network = "eip155:8453" -> 8453
    [] network = "eip155:84532" -> 84532
    [] OTHER -> DefaultChainID

\* The last EVM entry of accepts[k ..], 0 when there is none.
LastEVM(accepts, k) ==
  LET evm == {j \in k .. Len(accepts) : HasEIP155Prefix(accepts[j].Network)}
  IN  IF evm = {} THEN 0 ELSE CHOOSE j \in evm : \A i \in evm : i <= j

\* The first EVM entry of accepts[k ..], 0 when there is none.
RECURSIVE FirstEVM(_, _)
FirstEVM(accepts, k) ==
  IF k > Len(accepts) THEN 0
  ELSE IF HasEIP155Prefix(accepts[k].Network) THEN k
  ELSE FirstEVM(accepts, k + 1)

\* The typed data of a signing request: the domain's chainId and
\* verifyingContract, the message's to and value.
TypedData(chainId, contract, to, value) ==
  [chainId |-> chainId, verifyingContract |-> contract, to |-> to,
   value |-> value]

\* The payment envelope that is base64-encoded into the Payment header.
Envelope(scheme, network, to, value) ==
  [scheme |-> scheme, network |-> network, to |-> to, value |-> value]
NoEnvelope == Envelope("", "", "", "")

\* Pay returning "", "", err: signing is the typed data of every request
\* sent to the CDP signing endpoint.
NoPayment(e) ==
  [err |-> e, entry |-> 0, value |-> "", header |-> "", signing |-> <<>>,
   payment |-> NoEnvelope]

\* CDPProvider.Pay: entry is the accept entry it pays, value the "value" of
\* the signed TransferWithAuthorization and of the payment envelope.
CDPPay(req, initialized, signed) ==
  IF ~initialized THEN NoPayment("CDP provider not initialized")
  ELSE IF ~req.X402 \/ Len(req.Accepts) = 0 THEN NoPayment(ErrNoOptions)
  ELSE
    LET entry == FirstEVM(req.Accepts, 1)
        accept == req.Accepts[entry]
        typedData == TypedData(ChainID(accept.Network), accept.Asset,
                               accept.PayTo, accept.MaxAmountRequired)
    IN  IF entry = 0 THEN NoPayment("no EVM payment option found")
        ELSE IF ~signed
          THEN [NoPayment("CDP sign") EXCEPT !.signing = <<typedData>>]
        ELSE [err |-> NoErr, entry |-> entry,
              value |-> accept.MaxAmountRequired,
              header |-> "Payment", signing |-> <<typedData>>,
              payment |-> Envelope(accept.Scheme, accept.Network,
                                   accept.PayTo, accept.MaxAmountRequired)]

\* What Fetch takes from an EstimateCost of the AgentWallet provider.
ProviderEstimate(e) ==
  [err |-> e.err, usdCost |-> e.usdCost.val, description |-> e.description]

\* The estimate for the requirement of a response: in a run followed in
\* full the x402 provider is the AgentWallet provider, otherwise any.
EstimatesIn(resp) ==
  LET d == DetectProtocol(resp)
  IN  IF wide /\ d.err = NoErr /\ d.req.Protocol = "x402"
      THEN {ProviderEstimate(X402EstimateCost(d.req))}
      ELSE Estimates

\* The (headerName, headerValue) a successful Pay returns.
X402Proofs == {<<"Payment-Signature", "signature">>, <<"Payment", "envelope">>}
L402Proof == <<"Authorization", "L402 hash:preimage">>
ProofsIn(protocol) ==
  IF protocol = "L402" THEN {L402Proof}
  ELSE IF wide THEN X402Proofs
  ELSE {<<"Payment-Signature", "signature">>}

\* ------------------------------------------------------- canonicalizeJSON
\* JSON text, as the tree of its tokens in the order they are written: a
\* number, a string, an array, an object, or text that is not JSON.  The
\* members of an array carry the key "".
JNum(n) == [t |-> "num", n |-> n, s |-> "", items |-> <<>>]
JStr(str) == [t |-> "str", n |-> 0, s |-> str, items |-> <<>>]
JArr(items) == [t |-> "arr", n |-> 0, s |-> "", items |-> items]
JObj(members) == [t |-> "obj", n |-> 0, s |-> "", items |-> members]
JBad == [t |-> "bad", n |-> 0, s |-> "{z:", items |-> <<>>]
Member(k, v) == [k |-> k, v |-> v]

\* The keys of the objects, in the order sort.Strings puts them.
KeyOrder == <<"a", "z">>
Keys == {KeyOrder[i] : i \in DOMAIN KeyOrder}

\* A decoded value (interface{}): float64, string, []interface{} or
\* map[string]interface{}.
GoNum(f) == [t |-> "num", n |-> f, s |-> "", items |-> <<>>, m |-> <<>>]
GoStr(str) == [t |-> "str", n |-> 0, s |-> str, items |-> <<>>, m |-> <<>>]
GoArr(items) == [t |-> "arr", n |-> 0, s |-> "", items |-> items, m |-> <<>>]
GoMap(m) == [t |-> "map", n |-> 0, s |-> "", items |-> <<>>, m |-> m]

\* The member of an object that decides the value under key k: the last one.
LastWith(members, k) ==
  LET at == {i \in DOMAIN members : members[i].k = k}
  IN  members[CHOOSE i \in at : \A j \in at : j <= i].v

\* json.Unmarshal(data, &obj): numbers become float64, objects become maps.
RECURSIVE JSONUnmarshal(_)
JSONUnmarshal(doc) ==
  CASE doc.t = "num" -> GoNum(FlRat(doc.n, 1))
    [] doc.t = "str" -> GoStr(doc.s)
    [] doc.t = "arr" ->
         GoArr([i \in DOMAIN doc.items |-> JSONUnmarshal(doc.items[i].v)])
    [] OTHER ->
         GoMap([k \in {doc.items[i].k : i \in DOMAIN doc.items} |->
                  JSONUnmarshal(LastWith(doc.items, k))])

\* canonicalize: a copy of the value with every map rebuilt key by key.
RECURSIVE canonicalize(_)
canonicalize(v) ==
  CASE v.t = "map" -> GoMap([k \in DOMAIN v.m |-> canonicalize(v.m[k])])
    [] v.t = "arr" -> GoArr([i \in DOMAIN v.items |-> canonicalize(v.items[i])])
    [] OTHER -> v

\* json.Marshal: the members of a map are written in sorted key order.
RECURSIVE JSONMarshal(_)
JSONMarshal(v) ==
  CASE v.t = "num" -> JNum(v.n)
    [] v.t = "str" -> JStr(v.s)
    [] v.t = "arr" ->
         JArr([i \in DOMAIN v.items |-> Member("", JSONMarshal(v.items[i]))])
    [] OTHER ->
         LET keys == SelectSeq(KeyOrder, LAMBDA k : k \in DOMAIN v.m)
         IN  JObj([i \in DOMAIN keys |->
                     Member(keys[i], JSONMarshal(v.m[keys[i]]))])

\* canonicalizeJSON: text that does not parse is returned as it is.
canonicalizeJSON(data) ==
  IF data.t = "bad" THEN data
  ELSE JSONMarshal(canonicalize(JSONUnmarshal(data)))

\* ----------------------------------------------------- decodeBolt11Amount
\* An invoice is the sequence of its characters.
\* strings.ToLower on the characters the invoices are written with.
LowerChar(c) ==
  CASE c = "L" -> "l" [] c = "N" -> "n" [] c = "B" -> "b" [] c = "C" -> "c"
    [] c = "U" -> "u" [] c = "M" -> "m" [] OTHER -> c
ToLower(str) == [i \in DOMAIN str |-> LowerChar(str[i])]

HasPrefix(str, prefix) ==
  Len(str) >= Len(prefix) /\ SubSeq(str, 1, Len(prefix)) = prefix

\* strings.LastIndex(str, "1"), counted from 0; -1 when there is none.
LastIndexOne(str) ==
  LET at == {i \in DOMAIN str : str[i] = "1"}
  IN  IF at = {} THEN 0 - 1 ELSE (CHOOSE i \in at : \A j \in at : j <= i) - 1

\* The prefixes in the order decodeBolt11Amount tries them.
Bolt11Prefixes ==
  <<<<"l", "n", "b", "c", "r", "t">>, <<"l", "n", "t", "b", "s">>,
    <<"l", "n", "t", "b">>, <<"l", "n", "b", "c">>>>

DigitChars == <<"0", "1", "2", "3", "4", "5", "6", "7", "8", "9">>
IsDigit(c) == \E d \in DOMAIN DigitChars : DigitChars[d] = c
\* int64(c - '0')
DigitValue(c) == (CHOOSE d \in DOMAIN DigitChars : DigitChars[d] = c) - 1

\* The loop over numStr: num = num*10 + digit, stopping at a non-digit.
RECURSIVE ParseDigits(_, _)
ParseDigits(numStr, num) ==
  IF numStr = <<>> THEN [ok |-> TRUE, num |-> num]
  ELSE IF ~IsDigit(Head(numStr)) THEN [ok |-> FALSE, num |-> num]
  ELSE ParseDigits(Tail(numStr), num * 10 + DigitValue(Head(numStr)))

SatsPerMilliBTC == 100000
SatsPerMicroBTC == 100
NanoBTCPerSat == 10
PicoBTCPerSat == 10000
SatsPerBTC == 100000000

Sats(n) == [err |-> NoErr, sats |-> n]
NoSats(e) == [err |-> e, sats |-> 0]

\* The switch on the multiplier with micro-BTC scaled like milli-BTC.
ScaleMicroAsMilli(multiplier, num) ==
  CASE multiplier = "m" -> Sats(num * SatsPerMilliBTC)
    [] multiplier = "u" -> Sats(num * SatsPerMilliBTC)
    [] multiplier = "n" -> Sats(num \div NanoBTCPerSat)
    [] multiplier = "p" -> Sats(num \div PicoBTCPerSat)
    [] OTHER -> NoSats("unknown multiplier")

\* The switch on the multiplier.
Scale(multiplier, num) ==
  CASE multiplier = "m" -> Sats(num * SatsPerMilliBTC)
    [] multiplier = "u" -> Sats(num * SatsPerMicroBTC)
    [] multiplier = "n" -> Sats(num \div NanoBTCPerSat)
    [] multiplier = "p" -> Sats(num \div PicoBTCPerSat)
    [] IsDigit(multiplier) ->
         Sats((num * 10 + DigitValue(multiplier)) * SatsPerBTC)
    [] OTHER -> NoSats("unknown multiplier")

decodeBolt11Amount(text) ==
  LET invoice == ToLower(text)
      found == {k \in DOMAIN Bolt11Prefixes : HasPrefix(invoice, Bolt11Prefixes[k])}
  IN  IF found = {} THEN NoSats("not a valid BOLT11 invoice")
      ELSE
        LET prefix == Bolt11Prefixes[CHOOSE k \in found : \A j \in found : k <= j]
            rest == SubSeq(invoice, Len(prefix) + 1, Len(invoice))
            sepIdx == LastIndexOne(rest)
            amountStr == SubSeq(rest, 1, sepIdx)
            parsed == ParseDigits(SubSeq(amountStr, 1, Len(amountStr) - 1), 0)
        IN  IF sepIdx < 1 THEN NoSats("no amount in invoice")
            ELSE IF ~parsed.ok THEN NoSats("invalid amount character")
            ELSE Scale(amountStr[Len(amountStr)], parsed.num)

\* ----------------------------------------------------------- L402Provider.Pay
\* The reply of the wallet to POST /api/v1/payments: a transport error, or a
\* status with a body.  A body that is JSON is the object of its members
\* payment_hash, checking_id and preimage ("" for a member it lacks).
WalletBody(hash, checking, preimage) ==
  [json |-> TRUE, payment_hash |-> hash, checking_id |-> checking,
   preimage |-> preimage]
WalletNotJSON ==
  [json |-> FALSE, payment_hash |-> "", checking_id |-> "", preimage |-> ""]
WalletReply(err, status, body) == [err |-> err, status |-> status, body |-> body]

StatusCreated == 201

\* json.Unmarshal into the result struct: PaymentHash from "payment_hash",
\* Preimage from "checking_id".
UnmarshalPayResult(body) ==
  [ok |-> body.json, PaymentHash |-> body.payment_hash,
   Preimage |-> body.checking_id]

\* fmt.Sprintf("L402 %s:%s", a, b), as the sequence of its pieces.
SprintfL402(a, b) == <<"L402 ", a, ":", b>>

NoL402Payment(e) == [err |-> e, header |-> "", value |-> <<>>]

\* L402Provider.Pay.
L402Pay(req, reply) ==
  IF req.L402Invoice = "" THEN NoL402Payment("no Lightning invoice to pay")
  ELSE IF reply.err # NoErr THEN NoL402Payment("pay request failed")
  ELSE IF reply.status # StatusOK /\ reply.status # StatusCreated
    THEN NoL402Payment("LNbits pay HTTP")
  ELSE
    LET result == UnmarshalPayResult(reply.body)
    IN  IF ~result.ok THEN NoL402Payment("parse pay response")
        ELSE [err |-> NoErr, header |-> "Authorization",
              value |-> IF req.L402Hash # ""
                        THEN SprintfL402(req.L402Hash, result.PaymentHash)
                        ELSE SprintfL402("", result.PaymentHash)]

\* No direct call.
NoProbe ==
  [pc |-> "none", resp |-> NoResponse, detected |-> DetectError(NoErr),
   req |-> NoReq, x402 |-> NoEstimate(NoErr), cdp |-> NoEstimate(NoErr),
   pay |-> NoPayment(NoErr), data |-> JBad, canon |-> JBad,
   invoice |-> <<>>, decoded |-> NoSats(NoErr),
   wallet |-> WalletReply(NoErr, 0, WalletNotJSON),
   l402 |-> NoL402Payment(NoErr)]

\* ------------------------------------------------------------ budget ledger
ErrPerRequest == "payment would exceed budget: per-request limit"
ErrSession == "payment would exceed budget: session total"
BudgetErrs == {ErrPerRequest, ErrSession}

\* checkBudget without its per-request test.
checkBudgetSessionOnly(usdCost) ==
  IF config.MaxSessionUSD > 0
     /\ FAdd(sessionSpend, usdCost) > config.MaxSessionUSD
  THEN ErrSession
  ELSE NoErr

\* checkBudget without its session test.
checkBudgetPerRequestOnly(usdCost) ==
  IF config.MaxPerRequestUSD > 0 /\ usdCost > config.MaxPerRequestUSD
  THEN ErrPerRequest
  ELSE NoErr

\* checkBudget whose session test leaves the cost of the request out.
checkBudgetSpendOnly(usdCost) ==
  IF config.MaxPerRequestUSD > 0 /\ usdCost > config.MaxPerRequestUSD
  THEN ErrPerRequest
  ELSE IF config.MaxSessionUSD > 0 /\ sessionSpend > config.MaxSessionUSD
  THEN ErrSession
  ELSE NoErr

checkBudget(usdCost) ==
  IF config.MaxPerRequestUSD > 0 /\ usdCost > config.MaxPerRequestUSD
  THEN ErrPerRequest
  ELSE IF config.MaxSessionUSD > 0
          /\ FAdd(sessionSpend, usdCost) > config.MaxSessionUSD
  THEN ErrSession
  ELSE NoErr

\* recordPayment that appends the receipt and forgets the cost.
recordSpendLost(spend, usdCost) == spend

\* recordPayment: the new sessionSpend and the new receipt log.
recordSpend(spend, usdCost) == FAdd(spend, usdCost)
\* recordPayment that puts the receipt at the head of the log.
recordReceiptsFront(log, receipt) == <<receipt>> \o log

recordReceipts(log, receipt) == Append(log, receipt)

\* -------------------------------------------------------------- Router.Fetch
Finish(c, body, receipt, err) ==
  [c EXCEPT !.pc = "done",
            !.result = [body |-> body, receipt |-> receipt, err |-> err,
                        perr |-> NoPaymentError]]

\* return respBody, nil, &PaymentError{Protocol, Amount, Err}
FinishPaymentError(c, amount, err) ==
  [c EXCEPT !.pc = "done",
            !.result = [body |-> c.respBody, receipt |-> Nil, err |-> err,
                        perr |-> [typed |-> TRUE,
                                  Protocol |-> c.payReq.Protocol,
                                  Amount |-> amount]]]

\* bodyReader(): a fresh reader over the buffered bytes, absent when they are.
bodyReader(bodyBytes) ==
  IF bodyBytes.nil THEN NilReader ELSE NewReader(bodyBytes.bytes)

\* The request line and headers of a request on the wire.
Request(method, url, hdrs) == [method |-> method, url |-> url, headers |-> hdrs]

SendInitial(c) ==
  [c EXCEPT !.sent = Append(@, WireBody(bodyReader(c.bodyBytes))),
            !.requests =
               Append(@, Request(c.method, c.url, CallerHeaders(c.headers))),
            !.pc = "initial"]

\* The retry built over the caller's reader, which the first read drained.
RetryBodyReused(c) == c.body

\* The reader the retry request is built over.
RetryBody(c) == bodyReader(c.bodyBytes)

\* A retry that carries the proof header only.
RetryHeadersProofOnly(headers, proof) == HeaderSet({}, proof)

\* Lines 189-192: the caller's headers, then Set(headerName, headerValue).
RetryHeaders(headers, proof) == HeaderSet(CallerHeaders(headers), proof)

SendRetry(c) ==
  [c EXCEPT !.sent = Append(@, WireBody(RetryBody(c))),
            !.requests =
               Append(@, Request(c.method, c.url,
                                 RetryHeaders(c.headers, c.proof))),
            !.pc = "retry"]

\* Lines 83-109: buffer the body, build the request, send it.
Start(c, rd, urlOK) ==
  LET c0 == [c EXCEPT !.body = rd]
      c1 == IF rd.nil THEN c0
            ELSE [c0 EXCEPT !.body = Drained(rd), !.bodyReads = @ + 1,
                            !.bodyBytes = Bytes(Remaining(rd))]
  IN  IF ~rd.nil /\ rd.fail
      THEN Finish([c0 EXCEPT !.bodyReads = @ + 1], "<nil>", Nil,
                  "buffer request body")
      ELSE IF urlOK THEN SendInitial(c1)
      ELSE Finish(c1, "<nil>", Nil, "build request")

MakeReceipt(c, description) ==
  [Protocol |-> c.payReq.Protocol, USDCost |-> c.usdCost, Description |-> description]

DryRunDescription == "DRY RUN - would pay"
PaidDescription == "Paid"

\* The dry-run test placed after the call of provider.Pay.
DryRunReturnAfterPay(c) ==
  Finish([c EXCEPT !.nPay = @ + 1], c.respBody,
         <<[Protocol |-> c.payReq.Protocol, USDCost |-> c.usdCost,
            Description |-> "DRY RUN - would pay"]>>, NoErr)

\* Lines 162-172: the dry-run return.
DryRunReturn(c) ==
  Finish(c, c.respBody, <<MakeReceipt(c, DryRunDescription)>>, NoErr)

\* Settlement that does not look at DryRun.
SettleIgnoringDryRun(c) == [c EXCEPT !.pc = "pay", !.nPay = @ + 1]

\* Lines 162-175: the dry-run return, or the call of provider.Pay.
Settle(c) ==
  IF config.DryRun THEN DryRunReturn(c)
  ELSE [c EXCEPT !.pc = "pay", !.nPay = @ + 1]

\* CheckTrust whose threshold test lets the threshold amount itself through.
TrustGateSkipsAtThreshold(c) ==
  IF wot # Nil /\ extractRecipient(c.payReq) # ""
  THEN LET c1 == [c EXCEPT !.nTrust = @ + 1]
       IN  IF c.usdCost <= wot[1].ThresholdUSD THEN Settle(c1)
           ELSE [c1 EXCEPT !.pc = "trust"]
  ELSE Settle(c)

\* The trust gate with provider.Pay called before the score is fetched.
TrustGatePayFirst(c) ==
  IF wot # Nil /\ extractRecipient(c.payReq) # ""
  THEN LET c1 == [c EXCEPT !.nTrust = @ + 1]
       IN  IF c.usdCost < wot[1].ThresholdUSD THEN Settle(c1)
           ELSE [c1 EXCEPT !.pc = "trust", !.nPay = @ + 1]
  ELSE Settle(c)

\* Lines 152-160 with CheckTrust's threshold test: below the threshold
\* CheckTrust returns without I/O, otherwise the GET is in flight.
TrustGate(c) ==
  IF wot # Nil /\ extractRecipient(c.payReq) # ""
  THEN LET c1 == [c EXCEPT !.nTrust = @ + 1]
       IN  IF c.usdCost < wot[1].ThresholdUSD THEN Settle(c1)
           ELSE [c1 EXCEPT !.pc = "trust"]
  ELSE Settle(c)

ErrTrust == "trust check failed"

\* CheckTrust that blocks the payment when no score could be fetched.
TrustVerdictFailClosed(c, answer) ==
  IF ~answer.ok \/ answer.score < wot[1].MinScore
  THEN Finish(c, c.respBody, Nil, "trust check failed")
  ELSE Settle(c)

\* CheckTrust that lets every payment through.
TrustVerdictIgnoresScore(c, answer) == Settle(c)

\* CheckTrust after GetScore returned.
TrustVerdict(c, answer) ==
  IF answer.ok /\ answer.score < wot[1].MinScore
  THEN Finish(c, c.respBody, Nil, ErrTrust)
  ELSE Settle(c)

\* The budget gate placed after the call of provider.Pay.
BudgetGateAfterPay(c) ==
  LET c1 == [c EXCEPT !.nBudget = @ + 1, !.nPay = @ + 1]
      b == checkBudget(c.usdCost)
  IN  IF b # NoErr THEN Finish(c1, c.respBody, Nil, b)
      ELSE [c1 EXCEPT !.pc = "pay"]

\* The budget gate passed over when DryRun is set.
BudgetGateSkippedInDryRun(c) ==
  LET c1 == [c EXCEPT !.nBudget = @ + 1]
      b == IF config.DryRun THEN NoErr ELSE checkBudget(c.usdCost)
  IN  IF b # NoErr THEN Finish(c1, c.respBody, Nil, b) ELSE TrustGate(c1)

\* Lines 148-150: the budget gate.
BudgetGate(c) ==
  LET c1 == [c EXCEPT !.nBudget = @ + 1]
      b == checkBudget(c.usdCost)
  IN  IF b # NoErr THEN Finish(c1, c.respBody, Nil, b) ELSE TrustGate(c1)

\* Every error status taken for a payment challenge.
IsPaymentRequiredAnyError(resp) == resp.status >= StatusErrorFloor

\* Line 120: whether the initial response asks for payment.
IsPaymentRequired(resp) == resp.status = StatusPaymentRequired

ErrHTTP == "HTTP status"

\* A provider lookup that takes whichever provider is registered.
HasProviderAny(protocol) == providers # {}

\* Line 134: provider, ok := r.providers[payReq.Protocol]
HasProvider(protocol) == protocol \in providers

ErrNoProvider == "no payment provider configured for protocol"

\* Lines 109-147: the initial response, detection, provider lookup and
\* estimate, up to the call of checkBudget.
OnInitialToBudget(c, transport, resp, est) ==
  IF transport = "send failed" THEN Finish(c, "<nil>", Nil, "request failed")
  ELSE IF transport = "read failed"
  THEN Finish([c EXCEPT !.statuses = Append(@, resp.status)], "<nil>", Nil,
              "read response")
  ELSE
    LET c1 == [c EXCEPT !.respBody = resp.body,
                        !.initial = IF wide THEN resp ELSE NoResponse,
                        !.statuses = Append(@, resp.status)]
        d == DetectProtocol(resp)
        c2 == [c1 EXCEPT !.payReq = d.req]
        c3 == [c2 EXCEPT !.nEstimate = @ + 1]
    IN  IF ~IsPaymentRequired(resp)
        THEN IF resp.status >= StatusErrorFloor
             THEN Finish(c1, resp.body, Nil, ErrHTTP)
             ELSE Finish(c1, resp.body, Nil, NoErr)
        ELSE IF d.err # NoErr THEN Finish(c1, resp.body, Nil, d.err)
        ELSE IF ~HasProvider(d.req.Protocol)
        THEN FinishPaymentError(c2, "", ErrNoProvider)
        ELSE IF est.err # NoErr THEN Finish(c3, resp.body, Nil, est.err)
        ELSE [c3 EXCEPT !.usdCost = est.usdCost,
                        !.description = est.description, !.pc = "budget"]

\* Lines 109-172: the same, through checkBudget to the next suspension point.
OnInitial(c, transport, resp, est) ==
  LET c4 == OnInitialToBudget(c, transport, resp, est)
  IN  IF c4.pc = "budget" THEN BudgetGate(c4) ELSE c4

ErrPayment == "payment failed"

\* A failed provider.Pay after which the retry is sent all the same.
OnPayRetriesAfterFailure(c, ok) ==
  IF ok THEN SendRetry(c)
  ELSE FinishPaymentError(SendRetry(c), c.description,
                          "payment failed")

\* Lines 175-194: provider.Pay returned; on success the retry is sent.
OnPay(c, ok) ==
  IF ok THEN SendRetry(c) ELSE FinishPaymentError(c, c.description, ErrPayment)

\* Lines 204-206: whether the retry response lets the payment be recorded.
RetrySucceeded(transport, resp) ==
  transport = "ok" /\ resp.status < StatusErrorFloor

\* A retry answered with 402 that is paid and retried again.
OnRetryPayAgain(c, transport, resp) ==
  IF transport = "ok" /\ resp.status = StatusPaymentRequired /\ c.nPay < 3
  THEN [c EXCEPT !.statuses = Append(@, resp.status), !.pc = "pay",
                 !.nPay = @ + 1]
  ELSE Finish([c EXCEPT !.statuses = Append(@, resp.status)], resp.body, Nil,
              IF transport = "ok" /\ resp.status < StatusErrorFloor
              THEN NoErr ELSE "retry failed")

ErrRetryHTTP == "retry HTTP status"

\* Lines 194-219: the retry response.
OnRetry(c, transport, resp) ==
  IF transport = "send failed"
  THEN Finish(c, "<nil>", Nil, "retry request failed")
  ELSE IF transport = "read failed"
  THEN Finish([c EXCEPT !.statuses = Append(@, resp.status)], "<nil>", Nil,
              "read retry response")
  ELSE LET c1 == [c EXCEPT !.statuses = Append(@, resp.status)]
       IN  IF resp.status >= StatusErrorFloor
           THEN Finish(c1, resp.body, Nil, ErrRetryHTTP)
           ELSE Finish([c1 EXCEPT !.nRecord = @ + 1], resp.body,
                       <<MakeReceipt(c, PaidDescription)>>, NoErr)

\* ---------------------------------------------------------------- actions
Ledger == <<sessionSpend, receipts>>
Static == <<config, providers, wot, nCallers, rich, wide, probe>>
Setup == <<Static, mu, observer>>

\* No other caller is inside Fetch.
OthersIdle(i) == \A j \in Callers \ {i} : call[j].pc = "idle"

FetchStart(i) ==
  /\ i <= nCallers
  /\ fetchesLeft > 0
  /\ call[i].pc = "idle"
  /\ \E rd \in ReadersIn, urlOK \in UrlsIn, m \in MethodsIn, h \in HeadersIn :
       call' = [call EXCEPT ![i] =
                  Start([IdleCall EXCEPT !.alone = OthersIdle(i),
                                         !.method = m, !.headers = h,
                                         !.url = IF urlOK THEN GoodURL
                                                 ELSE BadURL],
                        rd, urlOK)]
  /\ fetchesLeft' = fetchesLeft - 1
  /\ UNCHANGED <<Ledger, Setup, settled>>

InitialResponse(i) ==
  /\ call[i].pc = "initial"
  /\ \E t \in TransportsIn, resp \in InitialResponsesIn :
       /\ call[i].cancelled => t # "ok"
       /\ \E est \in EstimatesIn(resp) :
            call' = [call EXCEPT ![i] = OnInitial(call[i], t, resp, est)]
  /\ UNCHANGED <<Ledger, Setup, fetchesLeft, settled>>

TrustResponse(i) ==
  /\ call[i].pc = "trust"
  /\ \E reply \in TrustRepliesIn :
       call' = [call EXCEPT ![i] =
                  TrustVerdict([call[i] EXCEPT !.trustReply = <<reply>>],
                               GetScore(reply))]
  /\ UNCHANGED <<Ledger, Setup, fetchesLeft, settled>>

PayReturn(i) ==
  /\ call[i].pc = "pay"
  /\ \E ok \in BOOLEAN, proof \in ProofsIn(call[i].payReq.Protocol) :
       /\ call[i].cancelled => ~ok
       /\ call' = [call EXCEPT ![i] =
                  OnPay(IF ok THEN [call[i] EXCEPT !.proof = proof]
                        ELSE call[i], ok)]
       /\ settled' = IF ok /\ nCallers = 1
                     THEN FAdd(settled, call[i].usdCost)
                     ELSE settled
  /\ UNCHANGED <<Ledger, Setup, fetchesLeft>>

RetryResponse(i) ==
  /\ call[i].pc = "retry"
  /\ \E t \in TransportsIn, resp \in RetryResponsesIn :
       /\ call[i].cancelled => t # "ok"
       /\ call' = [call EXCEPT ![i] = OnRetry(call[i], t, resp)]
       /\ IF RetrySucceeded(t, resp)
          THEN /\ sessionSpend' = recordSpend(sessionSpend, call[i].usdCost)
               /\ receipts' = recordReceipts(receipts,
                                  MakeReceipt(call[i], PaidDescription))
          ELSE UNCHANGED Ledger
  /\ UNCHANGED <<Setup, fetchesLeft, settled>>

Return(i) ==
  /\ call[i].pc = "done"
  /\ call' = [call EXCEPT ![i] = IdleCall]
  /\ UNCHANGED <<Ledger, Setup, fetchesLeft, settled>>

Next ==
  \E i \in Callers :
    \/ FetchStart(i)
    \/ InitialResponse(i)
    \/ TrustResponse(i)
    \/ PayReturn(i)
    \/ RetryResponse(i)
    \/ Return(i)

\* --------------------------------------------------------- the ledger lock
\* defer r.mu.Unlock(): the lock is free when the ledger operation returns.
deferUnlockMissing(m) == m

deferUnlock(m) == <<>>

\* r.mu.Lock() by a thread: it waits until the lock is free.
Lock(thread) == mu = <<>> /\ mu' = thread

FetchThread(i) == <<"fetch", i>>
ObserverThread(j) == <<"observer", j>>

\* The initial response of caller i, up to r.mu.Lock() in checkBudget.
InitialArrives(i) ==
  /\ call[i].pc = "initial"
  /\ \E t \in TransportsIn, resp \in InitialResponsesIn :
       /\ call[i].cancelled => t # "ok"
       /\ \E est \in EstimatesIn(resp) :
            call' = [call EXCEPT ![i] =
                       OnInitialToBudget(call[i], t, resp, est)]
  /\ UNCHANGED <<Ledger, Setup, fetchesLeft, settled>>

CheckBudgetLock(i) ==
  /\ call[i].pc = "budget"
  /\ Lock(FetchThread(i))
  /\ call' = [call EXCEPT ![i].pc = "budget.held"]
  /\ UNCHANGED <<Ledger, Static, observer, fetchesLeft, settled>>

\* checkBudget returns and Fetch runs on to its next suspension point.
CheckBudgetReturn(i) ==
  /\ call[i].pc = "budget.held"
  /\ call' = [call EXCEPT ![i] = BudgetGate(call[i])]
  /\ mu' = deferUnlock(mu)
  /\ UNCHANGED <<Ledger, Static, observer, fetchesLeft, settled>>

\* The retry response of caller i, up to r.mu.Lock() in recordPayment.
RetryArrives(i) ==
  /\ call[i].pc = "retry"
  /\ \E t \in TransportsIn, resp \in RetryResponsesIn :
       /\ call[i].cancelled => t # "ok"
       /\ call' = [call EXCEPT ![i] =
                     IF RetrySucceeded(t, resp)
                     THEN [OnRetry(call[i], t, resp) EXCEPT !.pc = "record"]
                     ELSE OnRetry(call[i], t, resp)]
  /\ UNCHANGED <<Ledger, Setup, fetchesLeft, settled>>

RecordPaymentLock(i) ==
  /\ call[i].pc = "record"
  /\ Lock(FetchThread(i))
  /\ call' = [call EXCEPT ![i].pc = "record.held"]
  /\ UNCHANGED <<Ledger, Static, observer, fetchesLeft, settled>>

RecordPaymentReturn(i) ==
  /\ call[i].pc = "record.held"
  /\ sessionSpend' = recordSpend(sessionSpend, call[i].usdCost)
  /\ receipts' = recordReceipts(receipts, call[i].result.receipt[1])
  /\ mu' = deferUnlock(mu)
  /\ call' = [call EXCEPT ![i].pc = "done"]
  /\ UNCHANGED <<Static, observer, fetchesLeft, settled>>

\* A thread calls Receipts() or SessionSpend().
ObserveStart(j) ==
  /\ observer[j].pc = "idle"
  /\ observer[j].left > 0
  /\ \E op \in {"Receipts", "SessionSpend"} :
       observer' = [observer EXCEPT ![j] =
                      [pc |-> "lock", op |-> op, left |-> @.left - 1,
                       seen |-> <<>>]]
  /\ UNCHANGED <<Ledger, Static, mu, call, fetchesLeft, settled>>

ObserveLock(j) ==
  /\ observer[j].pc = "lock"
  /\ Lock(ObserverThread(j))
  /\ observer' = [observer EXCEPT ![j].pc = "held"]
  /\ UNCHANGED <<Ledger, Static, call, fetchesLeft, settled>>

\* Receipts returns a copy of the log, SessionSpend the total.
ObserveReturn(j) ==
  /\ observer[j].pc = "held"
  /\ observer' = [observer EXCEPT
                    ![j].pc = "idle",
                    ![j].seen = IF observer[j].op = "Receipts" THEN receipts
                                ELSE <<sessionSpend>>]
  /\ mu' = deferUnlock(mu)
  /\ UNCHANGED <<Ledger, Static, call, fetchesLeft, settled>>

\* The steps of caller i that end a network operation.
NetworkStep(i) ==
  \/ InitialArrives(i)
  \/ TrustResponse(i)
  \/ PayReturn(i)
  \/ RetryArrives(i)

NextLock ==
  \/ \E i \in Callers :
       \/ FetchStart(i)
       \/ InitialArrives(i)
       \/ CheckBudgetLock(i)
       \/ CheckBudgetReturn(i)
       \/ TrustResponse(i)
       \/ PayReturn(i)
       \/ RetryArrives(i)
       \/ RecordPaymentLock(i)
       \/ RecordPaymentReturn(i)
       \/ Return(i)
  \/ \E j \in Observers :
       \/ ObserveStart(j)
       \/ ObserveLock(j)
       \/ ObserveReturn(j)

\* The points where Fetch waits for I/O: the initial send and body read, the
\* trust GET, provider.Pay, the retry send and body read.
SuspensionPoints == {"initial", "trust", "pay", "retry"}

\* The caller cancels the context it handed to Fetch.  The requests built
\* with NewRequestWithContext(ctx, ...) and provider.Pay(ctx, ...) end with
\* the context's error; GetScore's w.client.Get(url) carries no context.
Cancel(i) ==
  /\ call[i].pc \in SuspensionPoints
  /\ ~call[i].cancelled
  /\ call' = [call EXCEPT ![i].cancelled = TRUE]
  /\ UNCHANGED <<Ledger, Setup, fetchesLeft, settled>>

NextCancel ==
  \E i \in Callers :
    \/ Cancel(i)
    \/ FetchStart(i)
    \/ InitialResponse(i)
    \/ TrustResponse(i)
    \/ PayReturn(i)
    \/ RetryResponse(i)
    \/ Return(i)

\* A direct call DetectProtocol(resp, body).
ProbeDetect ==
  /\ probe.pc = "resp"
  /\ probe' = [probe EXCEPT !.pc = "detected",
                            !.detected = DetectProtocol(probe.resp)]
  /\ UNCHANGED <<Ledger, call, fetchesLeft, config, providers, wot, nCallers,
                 rich, wide, settled, mu, observer>>

\* A direct call EstimateCost(req) of the AgentWallet and the CDP provider.
ProbeEstimate ==
  /\ probe.pc = "req"
  /\ probe' = [probe EXCEPT !.pc = "estimated",
                            !.x402 = X402EstimateCost(probe.req),
                            !.cdp = CDPEstimateCost(probe.req)]
  /\ UNCHANGED <<Ledger, call, fetchesLeft, config, providers, wot, nCallers,
                 rich, wide, settled, mu, observer>>

\* A direct call Pay(ctx, req) of the CDP provider after its EstimateCost.
ProbePay ==
  /\ probe.pc = "estimated"
  /\ \E initialized \in BOOLEAN, signed \in BOOLEAN :
       probe' = [probe EXCEPT !.pc = "paid",
                              !.pay = CDPPay(probe.req, initialized, signed)]
  /\ UNCHANGED <<Ledger, call, fetchesLeft, config, providers, wot, nCallers,
                 rich, wide, settled, mu, observer>>

\* A direct call canonicalizeJSON(data).
ProbeCanonicalize ==
  /\ probe.pc = "data"
  /\ probe' = [probe EXCEPT !.pc = "canonical",
                            !.canon = canonicalizeJSON(probe.data)]
  /\ UNCHANGED <<Ledger, call, fetchesLeft, config, providers, wot, nCallers,
                 rich, wide, settled, mu, observer>>

\* A direct call decodeBolt11Amount(invoice).
ProbeDecode ==
  /\ probe.pc = "invoice"
  /\ probe' = [probe EXCEPT !.pc = "decoded",
                            !.decoded = decodeBolt11Amount(probe.invoice)]
  /\ UNCHANGED <<Ledger, call, fetchesLeft, config, providers, wot, nCallers,
                 rich, wide, settled, mu, observer>>

\* A direct call Pay(ctx, req) of the L402 provider.
ProbeL402Pay ==
  /\ probe.pc = "settle"
  /\ probe' = [probe EXCEPT !.pc = "settled",
                            !.l402 = L402Pay(probe.req, probe.wallet)]
  /\ UNCHANGED <<Ledger, call, fetchesLeft, config, providers, wot, nCallers,
                 rich, wide, settled, mu, observer>>

NextParse ==
  \/ ProbeDecode
  \/ ProbeL402Pay
  \/ ProbeDetect
  \/ ProbeEstimate
  \/ ProbePay
  \/ ProbeCanonicalize

\* Router configurations: New(cfg), RegisterProvider, SetWoTChecker.
Configs(sessionCaps) ==
  [MaxPerRequestUSD : {0, FromDecimal(50)},
   MaxSessionUSD : sessionCaps,
   DryRun : BOOLEAN]

ProviderSets == {{"x402"}, {"x402", "L402"}}
WoTs == {Nil, <<[MinScore |-> 1, ThresholdUSD |-> FromDecimal(75)]>>}

InitRouter(sessionCaps) ==
  /\ config \in Configs(sessionCaps)
  /\ providers \in ProviderSets
  /\ wot \in WoTs
  /\ sessionSpend = 0
  /\ receipts = <<>>
  /\ call = [i \in Callers |-> IdleCall]
  /\ probe = NoProbe
  /\ settled = 0
  /\ mu = <<>>
  /\ observer = [j \in Observers |-> IdleObserver(0)]

Init ==
  /\ InitRouter({0, FromDecimal(10)})
  /\ nCallers \in Callers
  /\ fetchesLeft = MaxFetches
  /\ rich = FALSE
  /\ wide = FALSE

Spec == Init /\ [][Next]_vars

\* One caller issuing its Fetch calls strictly one after another.
InitSeq ==
  /\ InitRouter({FromDecimal(5 * a) : a \in Amounts})
  /\ nCallers = 1
  /\ fetchesLeft = SeqFetches
  /\ rich = FALSE
  /\ wide = FALSE

SpecSeq == InitSeq /\ [][Next]_vars

\* One caller, few calls, every input.
InitOne ==
  /\ InitRouter({0, FromDecimal(10)})
  /\ nCallers = 1
  /\ fetchesLeft = OneFetches
  /\ rich = TRUE
  /\ wide = FALSE

SpecOne == InitOne /\ [][Next]_vars

\* One caller and one call, followed request by request.
InitWide ==
  /\ InitRouter({0, FromDecimal(10)})
  /\ nCallers = 1
  /\ fetchesLeft = WideFetches
  /\ rich = FALSE
  /\ wide = TRUE

SpecWide == InitWide /\ [][Next]_vars

\* Concurrent callers under a per-request cap and a session cap that the
\* larger cost just fits.
InitCaps ==
  /\ config \in [MaxPerRequestUSD : {FromDecimal(75)},
                  MaxSessionUSD : {FromDecimal(75), FromDecimal(100)},
                  DryRun : BOOLEAN]
  /\ providers \in ProviderSets
  /\ wot \in WoTs
  /\ sessionSpend = 0
  /\ receipts = <<>>
  /\ settled = 0
  /\ mu = <<>>
  /\ observer = [j \in Observers |-> IdleObserver(0)]
  /\ call = [i \in Callers |-> IdleCall]
  /\ probe = NoProbe
  /\ nCallers \in Callers
  /\ fetchesLeft = CapsFetches
  /\ rich = FALSE
  /\ wide = FALSE

SpecCaps == InitCaps /\ [][Next]_vars

\* Two callers and an observer, followed from lock to unlock.
InitLock ==
  /\ config = [MaxPerRequestUSD |-> 0, MaxSessionUSD |-> FromDecimal(100),
               DryRun |-> FALSE]
  /\ providers = {"x402", "L402"}
  /\ wot \in WoTs \ {Nil}
  /\ sessionSpend = 0
  /\ receipts = <<>>
  /\ settled = 0
  /\ mu = <<>>
  /\ observer = [j \in Observers |-> IdleObserver(MaxObserves)]
  /\ call = [i \in Callers |-> IdleCall]
  /\ probe = NoProbe
  /\ nCallers = MaxCallers
  /\ fetchesLeft = LockFetches
  /\ rich = FALSE
  /\ wide = FALSE

SpecLock == InitLock /\ [][NextLock]_vars

\* A network operation completes or fails; sync.Mutex hands the lock to a
\* thread that keeps waiting for it; a ledger operation runs to its return;
\* the caller takes the result of a Fetch that returned.
FairLock ==
  /\ \A i \in Callers :
       /\ WF_vars(NetworkStep(i))
       /\ SF_vars(CheckBudgetLock(i))
       /\ SF_vars(RecordPaymentLock(i))
       /\ WF_vars(CheckBudgetReturn(i))
       /\ WF_vars(RecordPaymentReturn(i))
  /\ \A j \in Observers :
       /\ SF_vars(ObserveLock(j))
       /\ WF_vars(ObserveReturn(j))

SpecLockFair == SpecLock /\ FairLock

\* One caller whose context may be cancelled while Fetch waits.
InitCancel ==
  /\ InitRouter({0, FromDecimal(10)})
  /\ nCallers = 1
  /\ fetchesLeft = CancelFetches
  /\ rich = TRUE
  /\ wide = FALSE

SpecCancel == InitCancel /\ [][NextCancel]_vars

\* The Detector and the providers called on their own, on every input.
\* Every requirement a provider can be handed.
Networks == {"eip155:8453", "solana:mainnet"}
ProbeAccepts == {Accept(n, a, "0xabc123") : n \in Networks, a \in AmountTexts}
AcceptLists ==
  UNION {[1 .. n -> ProbeAccepts] : n \in 0 .. MaxAccepts}
\* Entries that differ in every field the CDP provider reads.
SettleAccepts ==
  {X402Accept("exact", n, "5000000", "0xabc123", "0x036CbD") :
     n \in {"eip155:8453", "eip155:base", "solana:mainnet"}} \cup
  {X402Accept("upto", n, "1000000", "0xdef456", "0x833589") :
     n \in {"eip155:84532", "solana:mainnet"}}
SettleLists == UNION {[1 .. n -> SettleAccepts] : n \in 1 .. MaxAccepts}
ProbeRequirements ==
  {X402Req(accepts) : accepts \in AcceptLists \cup SettleLists} \cup
  {L402Req("lnbc50u1pj", "abc123")}

\* Every JSON text canonicalizeJSON is handed: scalars, arrays and objects
\* of scalars, pairs of those in an array or an object, and text that is
\* not JSON.
JScalars == {JNum(3), JNum(35), JStr("first")}
SeqsOf(S) == UNION {[1 .. n -> S] : n \in 0 .. MaxMembers}
ArraysOf(docs) ==
  {JArr([i \in DOMAIN vs |-> Member("", vs[i])]) : vs \in SeqsOf(docs)}
ObjectsOf(docs) ==
  {JObj(ms) :
     ms \in {q \in SeqsOf([k : Keys, v : docs]) :
                \A i, j \in DOMAIN q : q[i].k = q[j].k => i = j}}
FlatDocs == JScalars \cup ArraysOf(JScalars) \cup ObjectsOf(JScalars)
NestedDocs ==
  {JArr(<<Member("", a), Member("", b)>>) : a \in FlatDocs, b \in FlatDocs}
  \cup
  {JObj(<<Member(k[1], a), Member(k[2], b)>>) :
     k \in {<<"a", "z">>, <<"z", "a">>}, a \in FlatDocs, b \in FlatDocs}
ProbeDocs == FlatDocs \cup NestedDocs \cup {JBad}

\* Every invoice decodeBolt11Amount is handed: a human-readable prefix, an
\* amount, the separator and a data part.
InvoicePrefixes ==
  {Bolt11Prefixes[k] : k \in DOMAIN Bolt11Prefixes} \cup
  {<<"L", "N", "B", "C">>, <<"x", "y", "z">>, <<"l", "n">>}
AmountDigits == UNION {[1 .. n -> {"0", "1", "2", "5"}] : n \in 0 .. MaxDigits}
InvoiceAmounts ==
  {ds \o <<mult>> : ds \in AmountDigits, mult \in {"m", "u", "n", "p", "U", "x"}}
  \cup {<<>>, <<"2">>, <<"1", "0">>, <<"1", "a", "0", "u">>, <<"u", "5", "m">>}
InvoiceData == {<<"p", "j", "e", "x">>, <<"p">>}
ProbeInvoices ==
  {pre \o amount \o <<"1">> \o data :
     pre \in InvoicePrefixes, amount \in InvoiceAmounts, data \in InvoiceData}
  \cup {<<"l", "n", "b", "c", "2", "u">>, <<>>}

\* Every requirement the L402 provider is asked to pay and every reply of
\* the wallet.
L402Requirements ==
  {L402Req(invoice, hash) :
     invoice \in {"", "lnbc50u1pj"}, hash \in {"", "abc123"}}
WalletBodies ==
  {WalletNotJSON} \cup
  {WalletBody(hash, checking, preimage) :
     hash \in {"", "abc123", "ffee99"}, checking \in {"", "abc123", "ffee99"},
     preimage \in {"", "7c1d"}}
WalletReplies ==
  {WalletReply("connection refused", 0, WalletNotJSON)} \cup
  {WalletReply(NoErr, status, body) :
     status \in {StatusOK, StatusCreated, 520}, body \in WalletBodies}

InitParse ==
  /\ config \in Configs({0})
  /\ config.MaxPerRequestUSD = 0
  /\ ~config.DryRun
  /\ providers = {"x402", "L402"}
  /\ wot = Nil
  /\ sessionSpend = 0
  /\ receipts = <<>>
  /\ settled = 0
  /\ mu = <<>>
  /\ observer = [j \in Observers |-> IdleObserver(0)]
  /\ call = [i \in Callers |-> IdleCall]
  /\ nCallers = 1
  /\ fetchesLeft = 0
  /\ rich = TRUE
  /\ wide = FALSE
  /\ \/ \E resp \in ProbeResponses :
          probe = [NoProbe EXCEPT !.pc = "resp", !.resp = resp]
     \/ \E req \in ProbeRequirements :
          probe = [NoProbe EXCEPT !.pc = "req", !.req = req]
     \/ \E data \in ProbeDocs :
          probe = [NoProbe EXCEPT !.pc = "data", !.data = data]
     \/ \E invoice \in ProbeInvoices :
          probe = [NoProbe EXCEPT !.pc = "invoice", !.invoice = invoice]
     \/ \E req \in L402Requirements, reply \in WalletReplies :
          probe = [NoProbe EXCEPT !.pc = "settle", !.req = req,
                                  !.wallet = reply]

SpecParse == InitParse /\ [][NextParse]_vars

\* --------------------------------------------------------- properties
Done(i) == call[i].pc = "done"
Active == 1 .. nCallers

\* The float64 sum of the stored receipts' costs, in ledger order.
RECURSIVE SumUSDCost(_)
SumUSDCost(log) ==
  IF log = <<>> THEN 0
  ELSE FAdd(SumUSDCost(SubSeq(log, 1, Len(log) - 1)), log[Len(log)].USDCost)

\* C1: in every reachable state, under any interleaving of successful,
\* failing and dry-run Fetch calls, sessionSpend equals the sum of USDCost
\* over the stored receipts, and no dry-run receipt is stored.
C1_SpendIsReceiptSum ==
  /\ sessionSpend = SumUSDCost(receipts)
  /\ \A k \in DOMAIN receipts : receipts[k].Description = PaidDescription

C1_Witness ==
  /\ nCallers = 2
  /\ Len(receipts) = 2
  /\ receipts[1].USDCost # receipts[2].USDCost
  /\ \E i \in Active : Done(i) /\ call[i].result.err # NoErr

\* C2: with MaxPerRequestUSD > 0, provider.Pay is never invoked for a cost
\* above MaxPerRequestUSD and no stored receipt has a cost above it.
C2_PerRequestCapIsHard ==
  config.MaxPerRequestUSD > 0 =>
    /\ \A i \in Callers :
         call[i].nPay > 0 => call[i].usdCost <= config.MaxPerRequestUSD
    /\ \A k \in DOMAIN receipts :
         receipts[k].USDCost <= config.MaxPerRequestUSD

C2_Witness ==
  /\ config.MaxPerRequestUSD > 0
  /\ Len(receipts) > 0
  /\ \E i, j \in Active :
       /\ call[i].pc = "pay"
       /\ Done(j) /\ call[j].result.err = ErrPerRequest

\* C3: a Fetch the budget gate rejects returns a budget-exceeded error and
\* no receipt, has not invoked provider.Pay, has sent exactly one request,
\* and the rejecting step leaves sessionSpend and the receipt log unchanged.
BudgetRejected(c) == c.pc = "done" /\ c.result.err \in BudgetErrs

C3_RejectedState ==
  \A i \in Callers :
    BudgetRejected(call[i]) =>
      /\ call[i].result.receipt = Nil
      /\ call[i].nPay = 0
      /\ call[i].nRecord = 0
      /\ Len(call[i].sent) = 1
      /\ call[i].result.err = ErrPerRequest =>
           /\ config.MaxPerRequestUSD > 0
           /\ call[i].usdCost > config.MaxPerRequestUSD

C3_RejectingStep ==
  \A i \in Callers :
    (~BudgetRejected(call[i]) /\ BudgetRejected(call'[i])) =>
      /\ UNCHANGED <<sessionSpend, receipts>>
      /\ call'[i].result.err = ErrSession =>
           /\ config.MaxSessionUSD > 0
           /\ FAdd(sessionSpend, call'[i].usdCost) > config.MaxSessionUSD

C3_BudgetRejection == [](C3_RejectedState) /\ [][C3_RejectingStep]_vars

C3_Witness ==
  \E i \in Active :
    /\ BudgetRejected(call[i])
    /\ call[i].result.err = ErrSession
    /\ sessionSpend > 0

\* C4: Fetch calls issued one after another with MaxSessionUSD > 0: for a
\* decimal cost c and the cap 5c, the first five payments are admitted, the
\* sixth is rejected as budget-exceeded, sessionSpend never exceeds the cap
\* and is exactly the cap after the fifth.
C4_FiveThenReject ==
  \A a \in Amounts :
    LET c == FromDecimal(a)
        cap == FromDecimal(5 * a)
    IN  (/\ nCallers = 1
         /\ config.MaxSessionUSD = cap
         /\ (config.MaxPerRequestUSD = 0 \/ c <= config.MaxPerRequestUSD)
         /\ \A k \in DOMAIN receipts : receipts[k].USDCost = c)
        =>
        /\ sessionSpend <= cap
        /\ Len(receipts) <= 5
        /\ Len(receipts) = 5 => sessionSpend = cap
        /\ \A i \in Active :
             (Done(i) /\ call[i].nBudget = 1 /\ call[i].usdCost = c) =>
               (call[i].result.err \in BudgetErrs
                  <=> Len(receipts) - call[i].nRecord >= 5)

\* C5: with two concurrent Fetch calls both may pass the session check
\* before either records, and sessionSpend then exceeds MaxSessionUSD by at
\* most the cost of one request.
C5_OvershootAtMostOneCost ==
  (/\ nCallers <= 2
   /\ config.MaxSessionUSD > 0
   /\ sessionSpend > config.MaxSessionUSD)
  => \E k \in DOMAIN receipts :
       sessionSpend <= FAdd(config.MaxSessionUSD, receipts[k].USDCost)

C5_Witness ==
  /\ nCallers = 2
  /\ config.MaxSessionUSD > 0
  /\ sessionSpend > config.MaxSessionUSD
  /\ Len(receipts) = 2
  /\ FAdd(0, receipts[1].USDCost) <= config.MaxSessionUSD
  /\ FAdd(0, receipts[2].USDCost) <= config.MaxSessionUSD

\* A finished Fetch whose initial 402 was detected, had a provider and an
\* estimate, and so reached the gates.
Handled402(c) == c.pc = "done" /\ c.nBudget = 1
GateErrs == BudgetErrs \cup {ErrTrust}

\* C6 as stated: every handled 402 is followed by exactly one retry (two
\* outbound requests), unless the budget or the trust gate rejected, and
\* then exactly one outbound request was made.
C6_RetryUnlessGateRejects ==
  \A i \in Active :
    Handled402(call[i]) =>
      Len(call[i].sent) = IF call[i].result.err \in GateErrs THEN 1 ELSE 2

\* C6: every handled 402 is followed by exactly one retry (two outbound
\* requests), unless the budget gate or the trust gate rejected, DryRun is
\* set, or provider.Pay returned an error; in those four cases exactly one
\* outbound request was made.
C6_RetryUnlessStoppedBeforeIt ==
  \A i \in Active :
    /\ Len(call[i].sent) <= 2
    /\ Handled402(call[i]) =>
         Len(call[i].sent) =
           IF \/ call[i].result.err \in GateErrs
              \/ config.DryRun
              \/ call[i].result.err = ErrPayment
           THEN 1 ELSE 2

C6_Witness ==
  \E i \in Active :
    /\ Handled402(call[i])
    /\ call[i].nTrust = 1
    /\ Len(call[i].sent) = 2
    /\ call[i].result.err = "retry request failed"

\* C7: one Fetch calls provider.Pay at most once and sends at most one
\* retry; a retry answered with 402 or any status >= 400 is neither paid
\* nor retried again, it is returned as an error without a receipt.
C7_OnePayOneRetry ==
  \A i \in Active :
    /\ call[i].nPay <= 1
    /\ Len(call[i].sent) <= 1 + call[i].nPay
    /\ Len(call[i].statuses) <= Len(call[i].sent)
    /\ (/\ Done(i)
        /\ Len(call[i].statuses) = 2
        /\ call[i].statuses[2] >= StatusErrorFloor)
       => /\ call[i].result.err # NoErr
          /\ call[i].result.receipt = Nil
          /\ call[i].nRecord = 0

C7_Witness ==
  \E i \in Active :
    /\ Done(i)
    /\ call[i].statuses = <<StatusPaymentRequired, StatusPaymentRequired>>
    /\ call[i].result.err = ErrRetryHTTP
    /\ call[i].nPay = 1

\* A finished Fetch whose initial response arrived with a status other
\* than 402.
Non402(c) ==
  /\ c.pc = "done"
  /\ Len(c.statuses) >= 1
  /\ c.statuses[1] # StatusPaymentRequired

C8_Non402State ==
  \A i \in Active :
    Non402(call[i]) =>
      /\ call[i].result.receipt = Nil
      /\ call[i].nEstimate = 0 /\ call[i].nBudget = 0
      /\ call[i].nTrust = 0 /\ call[i].nPay = 0 /\ call[i].nRecord = 0
      /\ Len(call[i].sent) = 1
      /\ call[i].result.err # "read response" =>
           call[i].result.err = IF call[i].statuses[1] < StatusErrorFloor
                                THEN NoErr ELSE ErrHTTP

C8_Non402Step ==
  \A i \in Active :
    (call[i].pc # "done" /\ Non402(call'[i])) => UNCHANGED Ledger

\* C8: a Fetch whose initial response status is not 402 returns no receipt,
\* calls neither EstimateCost nor Pay nor the trust check, sends no retry
\* and leaves the ledger unchanged, whatever providers are registered; its
\* error is nil for a status < 400 and an HTTP-status error for >= 400.
C8_Non402PassThrough == [](C8_Non402State) /\ [][C8_Non402Step]_vars

C8_Witness ==
  \E i \in Active :
    /\ Non402(call[i])
    /\ call[i].statuses[1] = 500
    /\ call[i].result.err = ErrHTTP
    /\ "x402" \in providers
    /\ Len(receipts) = 1

\* C9: the body sent on the retry is byte-equal to the body sent on the
\* initial attempt; both are the buffered copy of the caller's reader,
\* which is read once, and an absent body is absent on both requests.
C9_RetryBodyEqualsInitial ==
  \A i \in Active :
    /\ call[i].bodyReads = IF call[i].body.nil THEN 0 ELSE 1
    /\ \A k \in DOMAIN call[i].sent :
         /\ call[i].sent[k] = call[i].bodyBytes
         /\ call[i].sent[k].nil = call[i].body.nil
         /\ call[i].sent[k].bytes = call[i].body.bytes
    /\ Len(call[i].sent) = 2 => call[i].sent[2] = call[i].sent[1]

C9_Witness ==
  \E i \in Active :
    /\ Len(call[i].sent) = 2
    /\ call[i].sent[2] = Bytes(<<7, 8>>)
    /\ Len(call[i].statuses) = 2

C10_DryRunState ==
  config.DryRun =>
    /\ sessionSpend = 0
    /\ receipts = <<>>
    /\ \A i \in Active :
         /\ call[i].nPay = 0
         /\ call[i].nRecord = 0
         /\ Len(call[i].sent) <= 1
         /\ (Handled402(call[i]) /\ call[i].result.err = NoErr) =>
              /\ call[i].result.body = call[i].respBody
              /\ call[i].result.receipt =
                   <<[Protocol |-> call[i].payReq.Protocol,
                      USDCost |-> call[i].usdCost,
                      Description |-> DryRunDescription]>>

C10_DryRunStep == config.DryRun => UNCHANGED Ledger

\* C10: with DryRun set no Fetch changes sessionSpend or the receipt log,
\* calls provider.Pay or sends a retry; a 402 that passes the gates returns
\* the initial response body with a receipt described as a dry run, and
\* that receipt is not stored.
C10_DryRunIsReadOnly == [](C10_DryRunState) /\ [][C10_DryRunStep]_vars

C10_Witness ==
  /\ config.DryRun
  /\ fetchesLeft = 0
  /\ \E i \in Active :
       /\ Handled402(call[i])
       /\ call[i].result.receipt # Nil
       /\ call[i].nTrust = 1
       /\ call[i].usdCost > 0

\* C11: the budget check is made in DryRun mode too: a dry-run Fetch whose
\* cost breaks the per-request or the session cap returns the budget error
\* and no receipt, as a Fetch without DryRun does.  (One caller: until the
\* Fetch records, the ledger is the one the gate saw.)
C11_DryRunBudgetChecked ==
  \A i \in Active :
    (Handled402(call[i]) /\ call[i].nRecord = 0) =>
      LET b == checkBudget(call[i].usdCost)
      IN  /\ call[i].result.err \in BudgetErrs <=> b # NoErr
          /\ b # NoErr => /\ call[i].result.err = b
                          /\ call[i].result.receipt = Nil
                          /\ call[i].result.body = call[i].respBody
                          /\ call[i].nTrust = 0

C11_Witness ==
  /\ config.DryRun
  /\ config.MaxPerRequestUSD = 0
  /\ \E i \in Active :
       Handled402(call[i]) /\ call[i].result.err = ErrSession

\* The steps a Fetch has taken so far form a prefix of initial-send, detect,
\* estimate, budget, trust, pay, retry, record.
StepsInOrder(c) ==
  /\ c.nEstimate <= 1 /\ c.nBudget <= 1 /\ c.nTrust <= 1
  /\ c.nPay <= 1 /\ c.nRecord <= 1
  /\ Len(c.statuses) <= Len(c.sent)
  /\ c.payReq # NoReq =>
       Len(c.statuses) >= 1 /\ c.statuses[1] = StatusPaymentRequired
  /\ c.nEstimate = 1 => c.payReq # NoReq /\ HasProvider(c.payReq.Protocol)
  /\ c.nBudget = 1 => c.nEstimate = 1 /\ c.result.err # "estimate cost"
  /\ c.nTrust = 1 => c.nBudget = 1 /\ c.result.err \notin BudgetErrs
  /\ c.nPay = 1 =>
       /\ c.nBudget = 1
       /\ c.result.err \notin GateErrs
       /\ c.pc # "trust"
       /\ ~config.DryRun
       /\ (wot # Nil /\ extractRecipient(c.payReq) # "") => c.nTrust = 1
  /\ Len(c.sent) = 2 => c.nPay = 1 /\ c.result.err # ErrPayment
  /\ c.nRecord = 1 =>
       /\ Len(c.sent) = 2 /\ Len(c.statuses) = 2
       /\ c.statuses[2] < StatusErrorFloor
       /\ c.pc = "done" /\ c.result.err = NoErr
  /\ c.result.err # NoErr => c.pc = "done"
  /\ c.pc = "initial" =>
       Len(c.sent) = 1 /\ c.statuses = <<>> /\ c.nEstimate = 0
  /\ c.pc = "trust" => Len(c.sent) = 1 /\ c.nTrust = 1 /\ c.nPay = 0
  /\ c.pc = "pay" => Len(c.sent) = 1 /\ c.nPay = 1
  /\ c.pc = "retry" =>
       Len(c.sent) = 2 /\ Len(c.statuses) = 1 /\ c.nRecord = 0

C12_OrderState == \A i \in Active : StepsInOrder(call[i])

\* A finished Fetch takes no further step; Pay starts only in a step whose
\* budget check passes or after the trust answer; the ledger changes only
\* in the step that completes the retry.
C12_OrderStep ==
  \A i \in Active :
    /\ Done(i) => call'[i] \in {call[i], IdleCall}
    /\ call'[i].nPay > call[i].nPay =>
         \/ call[i].pc = "trust"
         \/ call[i].pc = "initial" /\ checkBudget(call'[i].usdCost) = NoErr
    /\ call'[i].nRecord > call[i].nRecord => call[i].pc = "retry"

\* C12: within one Fetch the steps initial-send, detect, estimate, budget
\* check, trust check, pay, retry, record happen in that order, a failing
\* step ends the Fetch, Pay never precedes a passed budget and trust check
\* and record never precedes a successful retry.
C12_StrictlySerial == [](C12_OrderState) /\ [][C12_OrderStep]_vars

C12_Witness ==
  \E i \in Active :
    /\ Done(i)
    /\ call[i].nRecord = 1
    /\ call[i].nTrust = 1
    /\ call[i].usdCost >= wot[1].ThresholdUSD
    /\ call[i].payReq.Protocol = "L402"

\* CheckTrust got a score from the endpoint, and it is below MinScore.
LowScore(c) ==
  /\ c.trustReply # Nil
  /\ GetScore(c.trustReply[1]).ok
  /\ GetScore(c.trustReply[1]).score < wot[1].MinScore

\* The Fetch went on to settlement: provider.Pay was called, or with DryRun
\* the dry-run receipt was returned.
Settling(c) ==
  \/ c.nPay = 1
  \/ config.DryRun /\ c.pc = "done" /\ c.result.receipt # Nil

C13_LowTrustState ==
  \A i \in Active :
    /\ LowScore(call[i]) => Done(i) /\ call[i].result.err = ErrTrust
    /\ (Done(i) /\ call[i].result.err = ErrTrust) =>
         /\ wot # Nil
         /\ call[i].usdCost >= wot[1].ThresholdUSD
         /\ LowScore(call[i])
         /\ call[i].nPay = 0
         /\ call[i].nRecord = 0
         /\ Len(call[i].sent) = 1
         /\ call[i].result.receipt = Nil

C13_LowTrustStep ==
  \A i \in Active :
    (call[i].result.err # ErrTrust /\ call'[i].result.err = ErrTrust)
      => UNCHANGED Ledger

\* C13: with a Trust Checker configured, a cost at or above ThresholdUSD and
\* a score below MinScore, Fetch returns a trust error before any Pay: Pay
\* is not called, one outbound request reached the target, no receipt is
\* returned and sessionSpend is unchanged.
C13_LowTrustBlocks == [](C13_LowTrustState) /\ [][C13_LowTrustStep]_vars

C13_Witness ==
  \E i \in Active :
    /\ Done(i)
    /\ call[i].result.err = ErrTrust
    /\ call[i].payReq.Protocol = "L402"
    /\ sessionSpend > 0

C16_TrustFailOpen ==
  \A i \in Active :
    call[i].trustReply # Nil =>
      LET reply == call[i].trustReply[1]
      IN  IF /\ reply.transport = "ok"
             /\ reply.status = StatusOK
             /\ reply.body \in {"score 0", "{}"}
          THEN call[i].result.err = ErrTrust /\ call[i].nPay = 0
          ELSE call[i].result.err # ErrTrust /\ Settling(call[i])

C16_Witness ==
  \E i \in Active :
    /\ call[i].trustReply # Nil
    /\ call[i].trustReply[1].transport = "ok"
    /\ call[i].trustReply[1].status = 500
    /\ call[i].trustReply[1].body = "score 0"
    /\ call[i].nRecord = 1

\* C14: with a Trust Checker configured, every Fetch that reaches
\* provider.Pay has first called CheckTrust with the recipient of the
\* requirement; Pay is never called with the trust check skipped.
C14_PayOnlyAfterCheckTrust ==
  \A i \in Active :
    (wot # Nil /\ call[i].nPay = 1) => call[i].nTrust = 1

\* A finished Fetch whose provider.Pay returned an error.
PayFailed(c) == c.pc = "done" /\ c.result.err = ErrPayment

C17_PayFailedState ==
  \A i \in Active :
    PayFailed(call[i]) =>
      /\ call[i].result.perr =
           [typed |-> TRUE, Protocol |-> call[i].payReq.Protocol,
            Amount |-> call[i].description]
      /\ call[i].payReq.Protocol \in {"x402", "L402"}
      /\ call[i].description = Describe(call[i].usdCost)
      /\ call[i].result.receipt = Nil
      /\ call[i].result.body = call[i].respBody
      /\ call[i].nPay = 1
      /\ call[i].nRecord = 0
      /\ Len(call[i].sent) = 1

C17_PayFailedStep ==
  \A i \in Active :
    /\ (~PayFailed(call[i]) /\ PayFailed(call'[i])) =>
         call[i].pc = "pay" /\ UNCHANGED Ledger
    /\ (call[i].pc = "pay" /\ call'[i] # call[i]) =>
         \/ PayFailed(call'[i])
         \/ call'[i].pc = "retry" /\ Len(call'[i].sent) = 2

\* C17: when provider.Pay returns an error, Fetch returns a payment error
\* carrying the detected protocol and the amount description, sends no
\* retry, returns no receipt and leaves sessionSpend and the receipt log
\* unchanged.
C17_PayFailureIsTyped == [](C17_PayFailedState) /\ [][C17_PayFailedStep]_vars

C17_Witness ==
  \E i \in Active :
    /\ PayFailed(call[i])
    /\ call[i].payReq.Protocol = "L402"
    /\ sessionSpend > 0

\* C18: a receipt is appended and sessionSpend incremented only when the
\* retry completed with a 2xx status; any other outcome after a successful
\* Pay leaves the ledger unchanged and returns no receipt.
C18_RecordOnly2xx ==
  \A i \in Active :
    (call[i].nRecord = 1 \/ (call[i].nPay = 1 /\ call[i].result.receipt # Nil))
      => /\ Len(call[i].statuses) = 2
         /\ call[i].statuses[2] \in 200 .. 299

\* C19: when settlement succeeded and the retry response has status >= 400,
\* the error returned is a payment error of the same typed kind as a Pay
\* failure, carrying the protocol, the amount and the cause.
C19_RetryErrorIsTyped ==
  \A i \in Active :
    (/\ Done(i)
     /\ call[i].nPay = 1
     /\ Len(call[i].statuses) = 2
     /\ call[i].statuses[2] >= StatusErrorFloor
     /\ call[i].result.err = ErrRetryHTTP)
    => call[i].result.perr =
         [typed |-> TRUE, Protocol |-> call[i].payReq.Protocol,
          Amount |-> call[i].description]

\* A finished Fetch that found no provider for the detected protocol.
NoProviderFor(c) == c.pc = "done" /\ c.result.err = ErrNoProvider

C20_NoProviderState ==
  \A i \in Active :
    /\ NoProviderFor(call[i]) =>
         /\ call[i].payReq.Protocol \in {"x402", "L402"} \ providers
         /\ call[i].result.perr =
              [typed |-> TRUE, Protocol |-> call[i].payReq.Protocol,
               Amount |-> ""]
         /\ call[i].result.body = call[i].respBody
         /\ call[i].result.receipt = Nil
         /\ call[i].nEstimate = 0 /\ call[i].nBudget = 0
         /\ call[i].nTrust = 0 /\ call[i].nPay = 0 /\ call[i].nRecord = 0
         /\ Len(call[i].sent) = 1
    /\ (call[i].payReq # NoReq /\ call[i].payReq.Protocol \notin providers)
         => NoProviderFor(call[i])

C20_NoProviderStep ==
  \A i \in Active :
    (~NoProviderFor(call[i]) /\ NoProviderFor(call'[i])) => UNCHANGED Ledger

\* C20: a 402 detected as protocol P with no provider registered for P,
\* even when a provider for the other protocol is registered, returns a
\* no-provider payment error naming P with the initial body and no receipt;
\* no EstimateCost, budget check, trust check, Pay or retry happens and the
\* ledger is unchanged.
C20_NoProviderError == [](C20_NoProviderState) /\ [][C20_NoProviderStep]_vars

C20_Witness ==
  \E i \in Active :
    /\ NoProviderFor(call[i])
    /\ call[i].payReq.Protocol = "L402"
    /\ providers = {"x402"}
    /\ wot # Nil
    /\ sessionSpend > 0

\* ------------------------------------------------ detection (SpecParse)
ProbeDetected == probe.pc = "detected"
PaymentHeader(resp) == IF resp.payHdr = "" THEN resp.xPayHdr ELSE resp.payHdr
Only(p, x, a, b) == DetectProtocol(Response(StatusPaymentRequired, p, x, a, b))

\* C21: detection is by first match in a fixed order.  A non-empty
\* Payment-Required (or, when it is empty, X-Payment-Required) decides the
\* outcome by itself: the outcome is the one of the same response without
\* challenge and body, and it is never an L402 requirement.  Otherwise a
\* WWW-Authenticate beginning with "L402 " or "LSAT " decides by itself,
\* whatever the body, so a challenge and an invoice body together give the
\* invoice and hash of the challenge.  Otherwise the body decides, and an
\* empty body gives unknown-protocol.
C21_FirstMatchWins ==
  ProbeDetected =>
    LET resp == probe.resp
        out == probe.detected
    IN  IF PaymentHeader(resp) # ""
        THEN /\ out = Only(PaymentHeader(resp), "", "", "")
             /\ out.req.Protocol # "L402"
             /\ out.err = NoErr => out.req.Protocol = "x402"
        ELSE IF HasL402Prefix(resp.authHdr)
        THEN /\ out = Only("", "", resp.authHdr, "")
             /\ out.req.Protocol # "x402"
             /\ out.err = NoErr =>
                  /\ out.req.L402Invoice = parseHeaderParams(resp.authHdr).invoice
                  /\ out.req.L402Hash = parseHeaderParams(resp.authHdr).payment_hash
        ELSE IF resp.body # ""
        THEN /\ out = Only("", "", "", resp.body)
             /\ out.req.Protocol # "x402"
        ELSE out = DetectError(ErrUnknownProtocol)

\* An x402 header together with an L402 challenge and an invoice body.
C21_Witness ==
  /\ ProbeDetected
  /\ probe.resp.payHdr = ""
  /\ probe.resp.xPayHdr = B64(DocPayTo)
  /\ probe.resp.authHdr = ChallengeInvoiceHash
  /\ probe.resp.body = BodyInvoiceHash
  /\ probe.detected.req.Protocol = "x402"

\* C22: when the challenge decides, the Detector returns an L402
\* requirement only for a non-empty invoice in the key=value list, with the
\* payment_hash of the list or an empty hash when it has none; without a
\* non-empty invoice it returns the missing-invoice error, whatever the body
\* holds.
C22_ChallengeNeedsInvoice ==
  (ProbeDetected /\ PaymentHeader(probe.resp) = ""
     /\ HasL402Prefix(probe.resp.authHdr)) =>
    LET params == parseHeaderParams(probe.resp.authHdr)
        out == probe.detected
    IN  IF params.invoice # ""
        THEN /\ out.err = NoErr
             /\ out.req.Protocol = "L402"
             /\ out.req.L402Invoice = params.invoice
             /\ out.req.L402Hash = params.payment_hash
        ELSE /\ out.err = ErrMissingInvoice
             /\ out.req = NoReq

\* A challenge without invoice next to a body that holds one.
C22_Witness ==
  /\ ProbeDetected
  /\ PaymentHeader(probe.resp) = ""
  /\ probe.resp.authHdr = ChallengeNoInvoice
  /\ probe.resp.body = BodyInvoiceHash
  /\ probe.detected.err = ErrMissingInvoice

\* ------------------------------------------- unknown protocol (SpecWide)
\* A 402 response with no payment header, no L402/LSAT challenge, and a body
\* that is empty, not JSON, or JSON without a non-empty invoice or pr.
Unrecognized(resp) ==
  /\ resp.status = StatusPaymentRequired
  /\ resp.payHdr = "" /\ resp.xPayHdr = ""
  /\ ~HasL402Prefix(resp.authHdr)
  /\ \/ resp.body = ""
     \/ ~UnmarshalL402Body(resp.body).ok
     \/ /\ UnmarshalL402Body(resp.body).Invoice = ""
        /\ UnmarshalL402Body(resp.body).PR = ""

C23_UnknownState ==
  \A i \in Active :
    (Done(i) /\ Unrecognized(call[i].initial)) =>
      /\ call[i].result.err = ErrUnknownProtocol
      /\ ~call[i].result.perr.typed
      /\ call[i].result.body = call[i].initial.body
      /\ call[i].result.receipt = Nil
      /\ Len(call[i].sent) = 1
      /\ call[i].nEstimate = 0 /\ call[i].nBudget = 0
      /\ call[i].nTrust = 0 /\ call[i].nPay = 0 /\ call[i].nRecord = 0

C23_UnknownStep ==
  \A i \in Active :
    Unrecognized(call'[i].initial) => UNCHANGED Ledger

\* C23: a Fetch whose 402 response carries no recognized challenge returns
\* (initial body, no receipt, unknown-protocol error) after exactly one
\* outbound request; no provider is called and the ledger does not change.
C23_UnknownProtocol == [](C23_UnknownState) /\ [][C23_UnknownStep]_vars

C23_Witness ==
  \E i \in Active :
    /\ Done(i)
    /\ Unrecognized(call[i].initial)
    /\ call[i].initial.authHdr = "Basic realm=x"
    /\ call[i].initial.body = "not json"
    /\ call[i].result.err = ErrUnknownProtocol
    /\ call[i].result.body = "not json"

\* ------------------------------------------ requirement shape (SpecWide)
\* Exactly one branch of a requirement is populated, the one of its tag.
OneBranch(req) ==
  /\ req.Protocol \in {"x402", "L402"}
  /\ req.Protocol = "x402" =>
       req.X402 /\ req.L402Invoice = "" /\ req.L402Hash = ""
  /\ req.Protocol = "L402" =>
       ~req.X402 /\ req.Accepts = <<>> /\ req.L402Invoice # ""

\* C30: every requirement the Detector hands to Fetch has exactly one branch
\* populated, matching its tag (x402: X402Requirement present, invoice and
\* hash empty; L402: X402Requirement absent, invoice non-empty); a detection
\* that fails hands over no requirement, so the tag unknown never reaches a
\* provider, a PaymentError or a receipt.
C30_OneBranchPerTag ==
  /\ \A i \in Active :
       LET c == call[i]
           out == DetectProtocol(c.initial)
       IN  /\ (c.initial.status = StatusPaymentRequired /\ out.err = NoErr) =>
                c.payReq = out.req /\ OneBranch(c.payReq)
           /\ (c.initial.status = StatusPaymentRequired /\ out.err # NoErr) =>
                /\ c.payReq = NoReq /\ out.req = NoReq
                /\ c.nEstimate = 0 /\ c.nPay = 0 /\ ~c.result.perr.typed
           /\ c.result.perr.typed => c.result.perr.Protocol \in {"x402", "L402"}
           /\ c.result.receipt # Nil =>
                c.result.receipt[1].Protocol \in {"x402", "L402"}
  /\ \A k \in DOMAIN receipts : receipts[k].Protocol \in {"x402", "L402"}

\* A receipt for a requirement read from the response body.
C30_Witness ==
  \E i \in Active :
    /\ Done(i)
    /\ call[i].initial.body = BodyInvoiceHash
    /\ call[i].payReq = L402Req("lnbc50u1pj", "abc123")
    /\ Len(receipts) = 1
    /\ receipts[1].Protocol = "L402"
    /\ call[i].result.receipt = <<receipts[1]>>

\* ------------------------------------------------ estimates (SpecParse)
ProbeEstimated == probe.pc \in {"estimated", "paid"}

\* The entries of a requirement whose maxAmountRequired parses, and the USD
\* amount of one of them.
ParsedEntries(req) ==
  {k \in DOMAIN req.Accepts : ParseFloat(req.Accepts[k].MaxAmountRequired).ok}
USDOf(req, k) == FDivUSD(ParseFloat(req.Accepts[k].MaxAmountRequired).f)

\* est is the minimum of the parsed amounts over 10^6, computed on the
\* earliest entry attaining it, and described with that entry's network.
IsMinimum(req, est, suffix) ==
  /\ est.entry \in ParsedEntries(req)
  /\ est.usdCost = USDOf(req, est.entry)
  /\ \A j \in ParsedEntries(req) : ~FLess(USDOf(req, j), est.usdCost)
  /\ \A j \in ParsedEntries(req) : j < est.entry => USDOf(req, j) # est.usdCost
  /\ est.description =
       FormatUSD(est.usdCost) \o " USDC on " \o req.Accepts[est.entry].Network
         \o suffix

\* C24: EstimateCost of the AgentWallet and of the CDP provider returns the
\* minimum over the parsed maxAmountRequired values divided by 10^6, and its
\* description names the network of the earliest entry attaining that
\* minimum; it fails when the requirement is absent, the accepts list is
\* empty, or no entry parses.
C24_EstimateIsMinimum ==
  ProbeEstimated =>
    LET req == probe.req
    IN  /\ probe.x402.err = NoErr => IsMinimum(req, probe.x402, "")
        /\ probe.cdp.err = NoErr => IsMinimum(req, probe.cdp, " (CDP)")
        /\ (~req.X402 \/ req.Accepts = <<>> \/ ParsedEntries(req) = {}) =>
             probe.x402.err # NoErr /\ probe.cdp.err # NoErr
        /\ probe.x402.err = probe.cdp.err
        /\ probe.x402.usdCost = probe.cdp.usdCost

\* Two entries of equal USD amount: the first one is the estimate's.
C24_Witness ==
  /\ ProbeEstimated
  /\ Len(probe.req.Accepts) = 2
  /\ probe.req.Accepts[1].Network = "solana:mainnet"
  /\ probe.req.Accepts[2].Network = "eip155:8453"
  /\ USDOf(probe.req, 1) = USDOf(probe.req, 2)
  /\ probe.x402.err = NoErr
  /\ probe.x402.entry = 1
  /\ probe.cdp.description = "$5.0000 USDC on solana:mainnet (CDP)"

\* C25: EstimateCost skips every accept entry whose maxAmountRequired is not
\* a non-negative decimal integer, so the entry the returned cost was
\* computed on holds such an integer and the cost is never negative.
C25_OnlyNonNegativeIntegers ==
  (ProbeEstimated /\ probe.x402.err = NoErr) =>
    /\ probe.req.Accepts[probe.x402.entry].MaxAmountRequired \in IntegerTexts
    /\ probe.x402.usdCost.kind = "num"
    /\ probe.x402.usdCost.val >= 0

\* C29: whenever EstimateCost and Pay of the CDP provider both succeed on a
\* requirement, the value Pay authorizes is the maxAmountRequired of the
\* accept entry the estimated cost was computed on.
C29_PayAuthorizesTheEstimate ==
  (probe.pc = "paid" /\ probe.cdp.err = NoErr /\ probe.pay.err = NoErr) =>
    probe.pay.value = probe.req.Accepts[probe.cdp.entry].MaxAmountRequired

\* --------------------------------------- spend and requests (SpecWide)
C26_NoNegativeReceipt ==
  \A k \in DOMAIN receipts : receipts[k].USDCost >= 0

C26_SpendStep == sessionSpend' >= sessionSpend

\* C26: sessionSpend never decreases, and no receipt with USDCost < 0 is
\* recorded, for every cost the registered provider's EstimateCost returns.
C26_SpendMonotone == [](C26_NoNegativeReceipt) /\ [][C26_SpendStep]_vars

\* The header map of a caller, under the names the requests carry.
OnWire(headers) == CallerHeaders(headers)
Retried(c) == Len(c.requests) = 2

\* C28 as stated: the retry carries every caller header with its original
\* value and exactly one header more, the proof header.
C28_CallerHeadersPlusOne ==
  \A i \in Active :
    Retried(call[i]) =>
      LET retry == call[i].requests[2]
      IN  /\ retry.method = call[i].method
          /\ retry.url = call[i].url
          /\ OnWire(call[i].headers) \subseteq retry.headers
          /\ retry.headers \ OnWire(call[i].headers) = {call[i].proof}
          /\ Cardinality(retry.headers) = Cardinality(call[i].headers) + 1

\* C28: the retry has the caller's method and URL; it carries the proof
\* header returned by Pay and every caller header of another name with its
\* original value, and nothing else.  A caller header of the proof header's
\* name is replaced by the proof header, so the retry has one header more
\* than the caller supplied only when the names differ.
C28_ProofHeaderReplaces ==
  \A i \in Active :
    Retried(call[i]) =>
      LET c == call[i]
          retry == c.requests[2]
          kept == {h \in OnWire(c.headers) : h[1] # c.proof[1]}
      IN  /\ retry.method = c.method
          /\ retry.url = c.url
          /\ c.requests[1] = Request(c.method, c.url, OnWire(c.headers))
          /\ retry.headers = kept \cup {c.proof}
          /\ c.proof \notin kept
          /\ Cardinality(retry.headers) =
               IF kept = OnWire(c.headers)
               THEN Cardinality(c.headers) + 1
               ELSE Cardinality(c.headers)

\* An L402 retry of a caller that sent its own Authorization header.
C28_Witness ==
  \E i \in Active :
    /\ Retried(call[i])
    /\ call[i].method = "POST"
    /\ call[i].headers = {<<"Authorization", "Bearer token">>}
    /\ call[i].requests[1].headers = {<<"Authorization", "Bearer token">>}
    /\ call[i].requests[2].headers = {L402Proof}
    /\ Done(i)
    /\ Len(receipts) = 1

\* ------------------------------------------------- receipt log (Spec)
\* Caller i's Fetch returns a receipt of a payment that was made.
ReturnsPaidReceipt(c) ==
  /\ c.pc = "done"
  /\ c.result.receipt # Nil
  /\ c.result.receipt[1].Description # DryRunDescription

C27_LogState ==
  \A i \in Active :
    ReturnsPaidReceipt(call[i]) =>
      /\ call[i].nRecord = 1
      /\ \E k \in DOMAIN receipts : receipts[k] = call[i].result.receipt[1]

C27_LogStep ==
  LET finishing ==
        {i \in Active : call[i].pc # "done" /\ ReturnsPaidReceipt(call'[i])}
  IN  /\ Len(receipts') = Len(receipts) + Cardinality(finishing)
      /\ SubSeq(receipts', 1, Len(receipts)) = receipts
      /\ \A i \in finishing :
           receipts' = Append(receipts, call'[i].result.receipt[1])

\* C27: each Fetch that returns a non-dry-run receipt appended exactly that
\* receipt, once, to the log; the log changes only by such an append at its
\* end, so stored entries are never changed, reordered or removed, its
\* length counts those Fetch calls, and its order is the order in which
\* they recorded their payment, whichever call began first.
C27_AppendOnlyLog == [](C27_LogState) /\ [][C27_LogStep]_vars

\* Caller 2 began while caller 1, which had begun alone, was running, and
\* recorded its payment first.
C27_Witness ==
  /\ nCallers = 2
  /\ ReturnsPaidReceipt(call[1]) /\ ReturnsPaidReceipt(call[2])
  /\ call[1].alone /\ ~call[2].alone
  /\ call[1].usdCost # call[2].usdCost
  /\ receipts = <<call[2].result.receipt[1], call[1].result.receipt[1]>>

\* C31: every x402 requirement the Detector returns holds at least one
\* accept entry.
C31_X402HasAccepts ==
  (ProbeDetected /\ probe.detected.err = NoErr
     /\ probe.detected.req.Protocol = "x402") =>
    Len(probe.detected.req.Accepts) >= 1

\* -------------------------------------------- canonicalization (SpecParse)
\* The same JSON text with the members of every object written in the
\* opposite order; arrays keep their order.
RECURSIVE Reordered(_)
Reordered(doc) ==
  LET n == Len(doc.items)
  IN  CASE doc.t = "obj" ->
             JObj([i \in 1 .. n |->
                     Member(doc.items[n + 1 - i].k,
                            Reordered(doc.items[n + 1 - i].v))])
        [] doc.t = "arr" ->
             JArr([i \in 1 .. n |-> Member("", Reordered(doc.items[i].v))])
        [] OTHER -> doc

\* The same JSON text with the members of every object in sorted key order
\* and nothing else changed.
RECURSIVE KeysSorted(_)
KeysSorted(doc) ==
  CASE doc.t = "obj" ->
         LET keys == SelectSeq(KeyOrder,
                       LAMBDA k : \E i \in DOMAIN doc.items : doc.items[i].k = k)
         IN  JObj([i \in DOMAIN keys |->
                     Member(keys[i], KeysSorted(LastWith(doc.items, keys[i])))])
    [] doc.t = "arr" ->
         JArr([i \in DOMAIN doc.items |->
                 Member("", KeysSorted(doc.items[i].v))])
    [] OTHER -> doc

Canonicalized == probe.pc = "canonical"
C32_Idempotent == Canonicalized => canonicalizeJSON(probe.canon) = probe.canon
C32_KeyOrderFree ==
  Canonicalized => canonicalizeJSON(Reordered(probe.data)) = probe.canon
C32_ScalarsKept == Canonicalized => probe.canon = KeysSorted(probe.data)

\* C32: canonicalizeJSON is idempotent, gives the same bytes for two inputs
\* that differ only in the order of object keys at any depth, and changes
\* nothing but that order: array elements keep their order and scalars
\* their value.
C32_Canonical == C32_Idempotent /\ C32_KeyOrderFree /\ C32_ScalarsKept

\* ------------------------------------------------- BOLT11 amounts (SpecParse)
Decoded == probe.pc = "decoded"

\* The number a sequence of digits writes.
RECURSIVE Value(_)
Value(ds) ==
  IF ds = <<>> THEN 0
  ELSE 10 * Value(SubSeq(ds, 1, Len(ds) - 1)) + DigitValue(ds[Len(ds)])

Expected(mult, n) ==
  CASE mult = "m" -> n * 100000
    [] mult = "u" -> n * 100
    [] mult = "n" -> n \div 10
    [] OTHER -> n \div 10000

\* The text between a prefix and the separator that precedes the data part.
AmountOf(invoice, pre, data) ==
  SubSeq(invoice, Len(pre) + 1, Len(invoice) - Len(data) - 1)

\* The invoice is the prefix, digits N, a multiplier, the separator and a
\* data part without "1".
WellFormed(invoice, pre, data) ==
  LET amount == AmountOf(invoice, pre, data)
  IN  /\ ToLower(pre) \in {Bolt11Prefixes[k] : k \in DOMAIN Bolt11Prefixes}
      /\ invoice = pre \o amount \o <<"1">> \o data
      /\ Len(amount) >= 2
      /\ amount[Len(amount)] \in {"m", "u", "n", "p"}
      /\ \A i \in 1 .. Len(amount) - 1 : IsDigit(amount[i])

\* C33: for a prefix lnbc, lntb, lntbs or lnbcrt in either case, digits N,
\* a multiplier and the separator, decodeBolt11Amount returns N*100000 sats
\* for m, N*100 for u, N div 10 for n and N div 10000 for p; it returns an
\* error for another prefix, for an invoice without amount, and for a
\* non-digit in the amount.
C33_Bolt11Amount ==
  Decoded =>
    /\ \A pre \in InvoicePrefixes, data \in InvoiceData :
         LET amount == AmountOf(probe.invoice, pre, data)
         IN  /\ WellFormed(probe.invoice, pre, data) =>
                  probe.decoded =
                    Sats(Expected(amount[Len(amount)],
                                  Value(SubSeq(amount, 1, Len(amount) - 1))))
             /\ probe.invoice = pre \o <<"1">> \o data =>
                  probe.decoded.err # NoErr
             /\ probe.invoice = pre \o <<"1", "a", "0", "u", "1">> \o data =>
                  probe.decoded.err # NoErr
    /\ (\A k \in DOMAIN Bolt11Prefixes :
          ~HasPrefix(ToLower(probe.invoice), Bolt11Prefixes[k])) =>
         probe.decoded.err # NoErr

\* lnbc250n1... decodes to 25 sats.
C33_Witness ==
  /\ Decoded
  /\ probe.invoice =
       <<"l", "n", "b", "c", "2", "5", "0", "n", "1", "p", "j", "e", "x">>
  /\ probe.decoded = Sats(25)

\* --------------------------------------------------- L402 proof (SpecParse)
L402Settled == probe.pc = "settled" /\ probe.l402.err = NoErr

\* C34: on a successful L402 settlement the provider returns the header
\* Authorization with value "L402 <payment_hash>:<preimage>": the hash of
\* the challenge being paid, then the preimage of the wallet's payment
\* response.
C34_ProofCarriesPreimage ==
  L402Settled =>
    /\ probe.l402.header = "Authorization"
    /\ probe.l402.value =
         SprintfL402(probe.req.L402Hash, probe.wallet.body.preimage)

\* What Pay returns: after the colon stands the payment_hash of the wallet's
\* response, whatever preimage the response carries.
C34_ProofCarriesWalletHash ==
  L402Settled =>
    /\ probe.l402.header = "Authorization"
    /\ probe.l402.value =
         SprintfL402(probe.req.L402Hash, probe.wallet.body.payment_hash)

\* A challenge hash and a wallet response with a hash and a preimage.
C34_Witness ==
  /\ L402Settled
  /\ probe.req.L402Hash = "abc123"
  /\ probe.wallet.body.payment_hash = "abc123"
  /\ probe.wallet.body.preimage = "7c1d"
  /\ probe.l402.value = <<"L402 ", "abc123", ":", "abc123">>

\* --------------------------------------------------- cancellation (SpecCancel)
\* Caller i leaves a suspension point with its context cancelled.
LeavesCancelled(i) ==
  /\ call[i].cancelled
  /\ call[i].pc \in SuspensionPoints
  /\ call'[i].pc # call[i].pc

\* The I/O caller i waited for ended with an error, not with its result.
Aborted(i) ==
  CASE call[i].pc = "initial" ->
         call'[i].pc = "done"
         /\ call'[i].result.err \in {"request failed", "read response"}
    [] call[i].pc = "trust" ->
         call'[i].trustReply # Nil /\ call'[i].trustReply[1].transport # "ok"
    [] call[i].pc = "pay" ->
         call'[i].pc = "done" /\ call'[i].result.err = ErrPayment
    [] OTHER ->
         call'[i].pc = "done"
         /\ call'[i].result.err \in
              {"retry request failed", "read retry response"}

\* C35: when the context is cancelled while Fetch is at a suspension point
\* (initial send, body read, provider Pay, trust GET, retry send), the I/O
\* in flight there is aborted and Fetch returns without recording a receipt.
C35_CancelAborts ==
  [][\A i \in Callers :
       LeavesCancelled(i) =>
         /\ Aborted(i)
         /\ receipts' = receipts
         /\ call'[i].nRecord = 0]_vars

\* Everywhere but at the trust GET the cancelled I/O is aborted, and a
\* cancelled Fetch records no receipt.
C35_CancelAbortsButTrust ==
  [][\A i \in Callers :
       LeavesCancelled(i) =>
         /\ call[i].pc # "trust" => Aborted(i)
         /\ receipts' = receipts
         /\ call'[i].nRecord = 0]_vars

\* A Fetch cancelled during the trust GET that went on with its answer.
C35_Witness ==
  \E i \in Callers :
    /\ call[i].cancelled
    /\ call[i].trustReply # Nil
    /\ call[i].trustReply[1].transport = "ok"
    /\ call[i].pc = "done"
    /\ call[i].result.err = ErrTrust

\* ------------------------------------------------ CDP settlement (SpecParse)
\* Pay of an initialized CDP provider on a requirement with accept entries.
CDPSettling ==
  /\ probe.pc = "paid"
  /\ probe.pay.err \notin {"CDP provider not initialized", ErrNoOptions}

EVMEntries(req) ==
  {k \in DOMAIN req.Accepts : HasEIP155Prefix(req.Accepts[k].Network)}

C36_WitnessNoEVM ==
  /\ CDPSettling
  /\ probe.req.Accepts # <<>>
  /\ EVMEntries(probe.req) = {}
  /\ probe.pay.err = "no EVM payment option found"

\* C37: the recipient the trust gate checks is the recipient settlement
\* pays: for an x402 requirement settled by the CDP provider, the payTo of
\* the signed authorization is the identifier Fetch hands to CheckTrust,
\* extractRecipient(payReq).
C37_TrustedRecipientIsPaid ==
  (probe.pc = "paid" /\ probe.pay.err = NoErr) =>
    /\ probe.pay.signing[1].to = extractRecipient(probe.req)
    /\ probe.pay.payment.to = extractRecipient(probe.req)

\* What holds: the two agree when the first entry of the list is an EVM
\* entry.
C37_AgreeOnFirstEVM ==
  (probe.pc = "paid" /\ probe.pay.err = NoErr /\ 1 \in EVMEntries(probe.req)) =>
    probe.pay.signing[1].to = extractRecipient(probe.req)

\* ------------------------------------------- money settled (SpecSeq)
\* C38: in a sequential execution with MaxSessionUSD > 0, the total
\* estimated cost of the provider.Pay calls that returned success never
\* exceeds MaxSessionUSD, the payments whose retry then failed included.
C38_SettledWithinSession ==
  config.MaxSessionUSD > 0 => settled <= config.MaxSessionUSD

\* What the session check bounds: the recorded spend; the settled total
\* exceeds it by the payments whose retry failed.
C38_RecordedWithinSession ==
  config.MaxSessionUSD > 0 =>
    /\ sessionSpend <= config.MaxSessionUSD
    /\ sessionSpend <= settled

\* --------------------------------------------- concurrent overshoot (SpecCaps)
BothCaps == config.MaxSessionUSD > 0 /\ config.MaxPerRequestUSD > 0

\* Caller i passes checkBudget in this step.
PassesCheck(i) ==
  /\ call[i].nBudget = 0
  /\ call'[i].nBudget = 1
  /\ ~(call'[i].pc = "done" /\ call'[i].result.err \in BudgetErrs)

\* Caller i records its payment in this step.
Records(i) == call'[i].nRecord > call[i].nRecord

C40_State ==
  BothCaps =>
    sessionSpend <=
      config.MaxSessionUSD + (nCallers - 1) * config.MaxPerRequestUSD

C40_Step ==
  BothCaps =>
    \A i \in Callers :
      /\ PassesCheck(i) =>
           /\ FAdd(sessionSpend, call'[i].usdCost) <= config.MaxSessionUSD
           /\ call'[i].usdCost <= config.MaxPerRequestUSD
      /\ Records(i) =>
           /\ call[i].nBudget = 1
           /\ call[i].pc = "retry"
           /\ sessionSpend' = FAdd(sessionSpend, call[i].usdCost)

LockHeldOnlyInLedger ==
  /\ \A i \in Callers :
       mu = FetchThread(i) <=> call[i].pc \in {"budget.held", "record.held"}
  /\ \A j \in Observers :
       mu = ObserverThread(j) <=> observer[j].pc = "held"
  /\ \A i \in Callers : call[i].pc \in SuspensionPoints => mu # FetchThread(i)

\* A thread is inside Fetch, Receipts or SessionSpend and has not returned.
InFetch(i) == call[i].pc \notin {"idle", "done"}
Observing(j) == observer[j].pc # "idle"

\* Some thread inside an operation can take its next step, or waits for the
\* network.
NoDeadlock ==
  (\E i \in Callers : InFetch(i)) \/ (\E j \in Observers : Observing(j)) =>
    \/ \E i \in Callers : call[i].pc \in SuspensionPoints
    \/ ENABLED (\/ \E i \in Callers :
                     \/ CheckBudgetLock(i) \/ CheckBudgetReturn(i)
                     \/ RecordPaymentLock(i) \/ RecordPaymentReturn(i)
                \/ \E j \in Observers : ObserveLock(j) \/ ObserveReturn(j))

\* A thread waiting for the lock waits for a thread inside a ledger
\* operation, never for one blocked in network I/O.
WaitsOnlyForLedger ==
  \A i \in Callers :
    call[i].pc \in {"budget", "record"} /\ mu # <<>> =>
      \/ \E k \in Callers \ {i} : mu = FetchThread(k)
                                  /\ call[k].pc \in {"budget.held", "record.held"}
      \/ \E j \in Observers : mu = ObserverThread(j) /\ observer[j].pc = "held"

\* C39: the ledger lock is held only inside checkBudget, recordPayment,
\* Receipts and SessionSpend, never across an HTTP send, provider.Pay or the
\* trust GET; no deadlock is reachable with concurrent Fetch, Receipts and
\* SessionSpend calls, a Fetch blocked in network I/O blocks no other
\* caller's ledger access, and every Fetch whose network operations each
\* complete or fail eventually returns.
C39_LockDiscipline ==
  /\ [](LockHeldOnlyInLedger /\ NoDeadlock /\ WaitsOnlyForLedger)
  /\ \A i \in Callers : InFetch(i) ~> call[i].pc = "done"

\* One caller waits for provider.Pay while another records its payment
\* and the observer waits for the lock.
C39_Witness ==
  /\ call[1].pc = "pay"
  /\ call[2].pc = "record.held"
  /\ mu = FetchThread(2)
  /\ \E j \in Observers : observer[j].pc = "lock"

====
